---- MODULE Spec2Model ----
(***************************************************************************)
(* A model of simple-draw: the diagram-source escape (sanitizer.js and     *)
(* Renderer.sanitizeInput), the SVG export sanitizer                       *)
(* (ExportManager._sanitizeSvgContent), and the Renderer / ThemeManager /  *)
(* Editor state machine around the render surface.                         *)
(*                                                                         *)
(* Text is a sequence of one-character strings.  Ten specifications        *)
(* share the module: SpecEscape (the escape functions as pure functions),  *)
(* SpecExport (the export sanitizer as a pure function), SpecView (zoom    *)
(* and pan with renders), Spec (themes, editor and renders), SpecDownload  *)
(* (exportSVG and exportPNG on the render surface), SpecRender (renders    *)
(* in flight and their identifiers), SpecLoad (the examples catalogue and  *)
(* its fetch retries), SpecSanitize (the sanitizer functions applied to    *)
(* JavaScript values, with their options), SpecPan (drags of the diagram)  *)
(* and SpecStartup (the App's initialization, its retries and destroy).    *)
(***************************************************************************)
EXTENDS Integers, Sequences, FiniteSets, TLC

VARIABLES
    \* --- escape functions applied to a text (SpecEscape)
    escIn,          \* the argument text
    escFn,          \* which function was applied last ("none" before any call)
    escOut,         \* what it returned
    \* --- the export sanitizer applied to a markup text (SpecExport)
    svgIn,          \* the markup text handed to _sanitizeSvgContent
    svgStage,       \* how many times the sanitizer has been applied (0..2)
    svgOut1,        \* result of _sanitizeSvgContent(svgIn)
    svgOut2,        \* result of _sanitizeSvgContent applied to the first result
    \* --- the application (SpecView and Spec)
    editorText,     \* value of the textarea #mermaidInput
    clock,          \* Date.now(), in milliseconds since the page was first opened
    pending,        \* calls of mermaid.render not yet settled, oldest first
    outputDiv,      \* child nodes of #mermaidOutput, in document order
    tempNodes,      \* ids whose intermediate node div#d<id> is in the document
    isMobileView,   \* Renderer.isMobileView
    zoomLevel,      \* Renderer.zoomLevel, in tenths
    panEnabled,     \* Renderer.panEnabled
    translateX,     \* Renderer.translateX
    translateY,     \* Renderer.translateY
    currentTheme,   \* ThemeManager.currentTheme
    themeStore,     \* localStorage item 'mermaid-theme'
    mermaidConfig,  \* the theme part of the configuration mermaid was initialized with
    themeClasses,   \* classList of #mermaidOutput
    windowApp,      \* window.app is set
    lastCall,       \* the handler that ran last: its name, argument and result
    \* --- the export operations (SpecDownload)
    pngExportAvailable, \* ExportManager.pngExportAvailable
    maxFileSize,    \* ExportManager.config.maxFileSize
    alerted,        \* the message the last export call handed to alert()
    consoleError,   \* the message of the error it handed to console.error
    downloaded,     \* the file the last export call made the browser download
    \* --- the examples loader (SpecLoad)
    retryAttempts,  \* LoadExamples.config.retryAttempts
    loadPhase,      \* where loadExamples() stands: "idle", "fetching", "delaying", "returned"
    attempt,        \* the attempt parameter of the running _fetchExamplesFile call
    fetches,        \* calls of fetch() made by the load so far
    responses,      \* what each settled fetch of the load came to, in order
    examples,       \* LoadExamples.examples
    isLoaded,       \* LoadExamples.isLoaded
    loadReturn,     \* what the last loadExamples() call resolved with
    loadErrorText,  \* the text it put under 'Technical Details' in the error markup
    \* --- the sanitizer functions applied to a JavaScript value (SpecSanitize)
    sanIn,          \* the value handed to the function
    sanFn,          \* which function was called last ("none" before any call)
    sanOptions,     \* the options of the last validateAndSanitizeInput call
    sanOut,         \* what the call returned or threw
    blacklistPatterns,  \* the RegExp objects the caller passes as options.blacklistPatterns
    \* --- the most recent render submission, observed (SpecRender)
    latestAt,       \* its place in pending, 0 when it has settled or there is none
    latestOutcome,  \* "none", "in flight", "succeeded", "failed", or "prompt"
                    \* when a blank renderDiagram call came after it
    \* --- the drag handlers of the diagram on the surface (SpecPan)
    isDragging,     \* isDragging of the handlers setupZoomAndPan installed last
    startX,         \* their startX (read only while isDragging)
    startY,         \* their startY
    dragStart,      \* observed: where the pointer and the translation were when
                    \* the drag in progress started
    pointer,        \* observed: clientX and clientY of the event that began or
                    \* moved a drag last
    \* --- the App's start-up (SpecStartup)
    missing,        \* what the document lacks, of Lacks
    domValid,       \* whether the last _validateDOMReadiness call returned
    initPhase,      \* where _initialize stands: "validated" (suspended at its first
                    \* await), "rendering" (waiting for the initial-render timer),
                    \* "retry" (a retry timer is pending), "done", "failed"
    initAttempts,   \* observed: calls of _initialize so far
    initRetryCount, \* App.initRetryCount
    isInitialized,  \* App.isInitialized
    components,     \* the keys of App.components
    onErrorCalls,   \* observed: calls of config.onError so far
    clickHandlers,  \* click listeners of #renderBtn that dispatch 'diagram-update'
    updateListeners,\* 'diagram-update' listeners of document
    submitted,      \* observed: renders the last click of #renderBtn submitted
    destroyed,      \* observed: destroy() has been called
    \* --- the document around a theme switch (SpecSwitch)
    inputPresent    \* the document holds the textarea #mermaidInput

varsEsc == <<escIn, escFn, escOut>>
varsSvg == <<svgIn, svgStage, svgOut1, svgOut2>>
varsRender == <<clock, pending, outputDiv, tempNodes, isMobileView>>
varsView == <<zoomLevel, panEnabled, translateX, translateY>>
varsTheme == <<currentTheme, themeStore, mermaidConfig, themeClasses, windowApp>>
varsApp == <<editorText, varsRender, varsView, varsTheme, lastCall>>
varsExp == <<pngExportAvailable, maxFileSize, alerted, consoleError, downloaded>>
\* The parts added to the first three.
varsLoad == <<retryAttempts, loadPhase, attempt, fetches, responses, examples,
              isLoaded, loadReturn, loadErrorText>>
varsObs == <<latestAt, latestOutcome>>
varsSan == <<sanIn, sanFn, sanOptions, sanOut, blacklistPatterns>>
varsPan == <<isDragging, startX, startY, dragStart, pointer>>
\* The parts added after these.
varsBoot == <<missing, domValid, initPhase, initAttempts, initRetryCount, isInitialized,
              components, onErrorCalls, clickHandlers, updateListeners, submitted,
              destroyed>>
\* The application's variables but window.app.
varsAppStill == <<editorText, varsRender, varsView, currentTheme, themeStore,
                  mermaidConfig, themeClasses, lastCall>>
varsDoc == <<inputPresent>>
varsRest == <<varsPan, varsBoot, varsDoc>>
varsMore == <<varsExp, varsLoad, varsObs, varsSan, varsRest>>
\* The parts outside the application's objects.
varsAside == <<varsEsc, varsSvg, varsMore>>

(***************************************************************************)
(* Text helpers                                                            *)
(***************************************************************************)

\* All texts over alphabet A of length at most n.
TextsUpTo(A, n) == UNION {[1..k -> A] : k \in 0..n}

RECURSIVE Flatten(_)
\* Concatenation of a sequence of texts.
Flatten(ss) == IF ss = <<>> THEN <<>> ELSE Head(ss) \o Flatten(Tail(ss))

\* String.prototype.replace(/[class]/g, fn): every character of the class is
\* replaced by the callback's result for it (fn, a function on the class), every
\* other character is copied.
ReplaceAll(s, class, fn) ==
    Flatten([i \in 1..Len(s) |-> IF s[i] \in class THEN fn[s[i]] ELSE <<s[i]>>])

\* Text t occurs in s starting at position p.
OccursAt(s, p, t) ==
    /\ p + Len(t) - 1 <= Len(s)
    /\ \A k \in 1..Len(t) : s[p + k - 1] = t[k]

\* The set of characters of s.
Range(s) == {s[i] : i \in 1..Len(s)}

\* The characters of s that are in set K, in order.
Project(s, K) == SelectSeq(s, LAMBDA c : c \in K)

(***************************************************************************)
(* sanitizer.js: sanitizeMermaidInput, and Renderer.sanitizeInput          *)
(***************************************************************************)

LT   == <<"&", "l", "t", ";">>
AMP  == <<"&", "a", "m", "p", ";">>
QUOT == <<"&", "q", "u", "o", "t", ";">>

\* The character class of the regular expression /[<>&"]/g.
MermaidEscapeClass == {"<", ">", "&", "\""}

\* mermaidSafeEntityMap: it has no entry for '>'.
mermaidSafeEntityMap == [c \in {"<", "&", "\""} |->
    CASE c = "<" -> LT [] c = "&" -> AMP [] c = "\"" -> QUOT]

\* A map that forgets '&' (what the sanitizer test expects of the function).
mermaidSafeEntityMapNoAmp == [c \in {"<", "\""} |->
    CASE c = "<" -> LT [] c = "\"" -> QUOT]

\* The replace callback: mermaidSafeEntityMap[char] || char.
MermaidReplacer(c) ==
    IF c \in DOMAIN mermaidSafeEntityMap THEN mermaidSafeEntityMap[c] ELSE <<c>>

MermaidReplacerNoAmp(c) ==
    IF c \in DOMAIN mermaidSafeEntityMapNoAmp THEN mermaidSafeEntityMapNoAmp[c] ELSE <<c>>

sanitizeMermaidInputNoAmp(input) == ReplaceAll(input, MermaidEscapeClass, [c \in MermaidEscapeClass |-> MermaidReplacerNoAmp(c)])

sanitizeMermaidInput(input) == ReplaceAll(input, MermaidEscapeClass, [c \in MermaidEscapeClass |-> MermaidReplacer(c)])

\* The switch of Renderer.sanitizeInput: three cases and a default.
RendererReplacer(c) ==
    CASE c = "<" -> LT
      [] c = "&" -> AMP
      [] c = "\"" -> QUOT
      [] OTHER -> <<c>>

Renderer_sanitizeInput(input) == ReplaceAll(input, MermaidEscapeClass, [c \in MermaidEscapeClass |-> RendererReplacer(c)])


(***************************************************************************)
(* ExportManager._sanitizeSvgContent                                       *)
(*                                                                         *)
(* Markup text is a sequence of tags: start-tags, end-tags and             *)
(* empty-element tags, each attribute written with a quote character.  The *)
(* DOM is a forest of elements [tag, attrs, kids]; a document has zero or  *)
(* one root element.  DOMParser and XMLSerializer are modelled by what     *)
(* they do to that text: the parser checks nesting and drops the quoting,  *)
(* the serializer writes a childless element as an empty-element tag and   *)
(* quotes every attribute with '"'.                                        *)
(***************************************************************************)

StartTag(tag, attrs) == [k |-> "start", tag |-> tag, attrs |-> attrs]
EndTag(tag)          == [k |-> "end", tag |-> tag, attrs |-> <<>>]
EmptyTag(tag, attrs) == [k |-> "empty", tag |-> tag, attrs |-> attrs]

Element(tag, attrs, kids) == [tag |-> tag, attrs |-> attrs, kids |-> kids]

\* The parser keeps an attribute's name and value and forgets its quoting.
DomAttrs(attrs) == [i \in 1..Len(attrs) |-> [name |-> attrs[i].name, value |-> attrs[i].value]]

ParseFailed == [ok |-> FALSE, nodes |-> <<>>, rest |-> <<>>]

RECURSIVE ParseNodes(_)
\* Parses sibling elements up to an end-tag or the end of the text.
ParseNodes(t) ==
    IF t = <<>> \/ Head(t).k = "end"
    THEN [ok |-> TRUE, nodes |-> <<>>, rest |-> t]
    ELSE IF Head(t).k = "empty"
    THEN LET r == ParseNodes(Tail(t))
         IN  IF r.ok
             THEN [r EXCEPT !.nodes = <<Element(Head(t).tag, DomAttrs(Head(t).attrs), <<>>)>> \o @]
             ELSE ParseFailed
    ELSE LET inner == ParseNodes(Tail(t))
         IN  IF ~inner.ok \/ inner.rest = <<>> \/ Head(inner.rest).tag # Head(t).tag
             THEN ParseFailed
             ELSE LET r == ParseNodes(Tail(inner.rest))
                  IN  IF r.ok
                      THEN [r EXCEPT !.nodes =
                               <<Element(Head(t).tag, DomAttrs(Head(t).attrs), inner.nodes)>> \o @]
                      ELSE ParseFailed

\* parser.parseFromString(svgContent, 'image/svg+xml'): a document with exactly
\* one root element, or a parsererror document.
parseFromString(t) ==
    LET r == ParseNodes(t)
    IN  IF r.ok /\ r.rest = <<>> /\ Len(r.nodes) = 1
        THEN [parsererror |-> FALSE, nodes |-> r.nodes]
        ELSE [parsererror |-> TRUE, nodes |-> <<>>]

SerializedAttrs(attrs) ==
    [i \in 1..Len(attrs) |-> [name |-> attrs[i].name, value |-> attrs[i].value, q |-> "\""]]

RECURSIVE serializeToString(_)
\* new XMLSerializer().serializeToString: the markup of a forest.
serializeToString(nodes) ==
    IF nodes = <<>> THEN <<>>
    ELSE LET e == Head(nodes)
         IN  (IF e.kids = <<>>
              THEN <<EmptyTag(e.tag, SerializedAttrs(e.attrs))>>
              ELSE <<StartTag(e.tag, SerializedAttrs(e.attrs))>>
                       \o serializeToString(e.kids) \o <<EndTag(e.tag)>>)
             \o serializeToString(Tail(nodes))

\* A list that forgets 'form'.
forbiddenElementsNoForm == <<"script", "object", "embed", "iframe", "input">>

forbiddenElements == <<"script", "object", "embed", "iframe", "form", "input">>

RECURSIVE RemoveTagged(_, _)
\* doc.querySelectorAll(tagName).forEach(element => element.remove()): every
\* element of that tag leaves the forest, with its subtree.
RemoveTagged(nodes, tagName) ==
    IF nodes = <<>> THEN <<>>
    ELSE LET e == Head(nodes)
         IN  (IF e.tag = tagName
              THEN <<>>
              ELSE <<[e EXCEPT !.kids = RemoveTagged(e.kids, tagName)]>>)
             \o RemoveTagged(Tail(nodes), tagName)

RECURSIVE RemoveAllTagged(_, _)
\* forbiddenElements.forEach(...), in the order of the list.
RemoveAllTagged(nodes, tagNames) ==
    IF tagNames = <<>> THEN nodes
    ELSE RemoveAllTagged(RemoveTagged(nodes, Head(tagNames)), Tail(tagNames))

\* String.prototype.startsWith.
StartsWith(s, t) == Len(t) <= Len(s) /\ \A k \in 1..Len(t) : s[k] = t[k]

\* String.prototype.includes.
Includes(s, t) == \E p \in 1..(Len(s) + 1) : OccursAt(s, p, t)

UpperCase == "A" :> "a" @@ "C" :> "c" @@ "I" :> "i" @@ "J" :> "j" @@ "P" :> "p"
             @@ "R" :> "r" @@ "S" :> "s" @@ "T" :> "t" @@ "V" :> "v"

\* String.prototype.toLowerCase (over the letters the model's texts use).
ToLowerCase(s) == [i \in 1..Len(s) |-> IF s[i] \in DOMAIN UpperCase THEN UpperCase[s[i]] ELSE s[i]]

ON == <<"o", "n">>
JAVASCRIPT == <<"j", "a", "v", "a", "s", "c", "r", "i", "p", "t", ":">>

\* The test of the attribute loop: an event handler or a javascript: URL.
DangerousAttr(attr) ==
    \/ StartsWith(attr.name, ON)
    \/ (attr.value # <<>> /\ Includes(ToLowerCase(attr.value), JAVASCRIPT))

RECURSIVE RemoveLive(_, _)
\* The loop run over the live attribute list by index: after a removal the
\* next attribute slides into the removed one's place and is skipped.
RemoveLive(attrs, i) ==
    IF i > Len(attrs) THEN attrs
    ELSE IF DangerousAttr(attrs[i])
         THEN RemoveLive(SubSeq(attrs, 1, i - 1) \o SubSeq(attrs, i + 1, Len(attrs)), i + 1)
         ELSE RemoveLive(attrs, i + 1)

StripAttributesLive(attrs) == RemoveLive(attrs, 1)

\* Array.from(element.attributes).forEach(...): the loop runs over a copy, so
\* every dangerous attribute is removed.
StripAttributes(attrs) == SelectSeq(attrs, LAMBDA a : ~DangerousAttr(a))

RECURSIVE StripAllAttributes(_)
\* doc.querySelectorAll('*').forEach(...).
StripAllAttributes(nodes) ==
    [i \in 1..Len(nodes) |->
        [nodes[i] EXCEPT !.attrs = StripAttributes(@), !.kids = StripAllAttributes(@)]]

RECURSIVE SumLengths(_)
SumLengths(ss) == IF ss = <<>> THEN 0 ELSE Len(Head(ss)) + SumLengths(Tail(ss))

TagNameLength ==
    [t \in {"svg", "g", "script", "object", "embed", "iframe", "form", "input"} |->
        CASE t = "svg" -> 3 [] t = "g" -> 1 [] t = "script" -> 6 [] t = "object" -> 6
          [] t = "embed" -> 5 [] t = "iframe" -> 6 [] t = "form" -> 4 [] t = "input" -> 5]

\* sanitizedContent.length: '<' name, ' ' name '="' value '"' per attribute,
\* and '>' or '/>'; an end-tag is '</' name '>'.
MarkupLength(t) ==
    LET TagLength(x) ==
            IF x.k = "end" THEN TagNameLength[x.tag] + 3
            ELSE 1 + TagNameLength[x.tag]
                 + SumLengths([i \in 1..Len(x.attrs) |-> x.attrs[i].name \o x.attrs[i].value])
                 + 4 * Len(x.attrs)
                 + (IF x.k = "empty" THEN 2 ELSE 1)
        RECURSIVE Total(_)
        Total(u) == IF u = <<>> THEN 0 ELSE TagLength(Head(u)) + Total(Tail(u))
    IN  Total(t)

MAX_EXPORT_SIZE == 10 * 1024 * 1024

Returned(text) == [threw |-> FALSE, value |-> text]
Threw == [threw |-> TRUE, value |-> <<>>]

\* _sanitizeSvgContent(svgContent) under this.config.maxFileSize = limit.
sanitizeSvgContentWithin(svgContent, limit) ==
    IF svgContent = <<>> THEN Threw                      \* !svgContent
    ELSE LET doc == parseFromString(svgContent)
         IN  IF doc.parsererror THEN Threw
             ELSE LET cleaned == StripAllAttributes(RemoveAllTagged(doc.nodes, forbiddenElements))
                      sanitizedContent == serializeToString(cleaned)
                  IN  IF MarkupLength(sanitizedContent) > limit
                      THEN Threw
                      ELSE Returned(sanitizedContent)

\* _sanitizeSvgContent(svgContent) with the default maxFileSize.
sanitizeSvgContent(svgContent) == sanitizeSvgContentWithin(svgContent, MAX_EXPORT_SIZE)

(***************************************************************************)
(* SpecEscape: the escape functions applied to every bounded text          *)
(***************************************************************************)

MaxEscLen == 4

EscAlphabet == {"<", ">", "&", "\"", "/", "a", ";"}

EscFns == {"sanitizeMermaidInput", "Renderer.sanitizeInput"}

InitEscVars ==
    /\ escIn \in TextsUpTo(EscAlphabet, MaxEscLen)
    /\ escFn = "none"
    /\ escOut = <<>>

CallSanitizeMermaidInput ==
    /\ escFn' = "sanitizeMermaidInput"
    /\ escOut' = sanitizeMermaidInput(escIn)
    /\ UNCHANGED escIn

CallRendererSanitizeInput ==
    /\ escFn' = "Renderer.sanitizeInput"
    /\ escOut' = Renderer_sanitizeInput(escIn)
    /\ UNCHANGED escIn


(***************************************************************************)
(* SpecExport: the export sanitizer applied to every bounded markup text   *)
(***************************************************************************)

MaxElems == 2

SvgTags == {"svg", "script", "form"}

Attr(name, value) == [name |-> name, value |-> value]

ATTR_ID      == Attr(<<"i", "d">>, <<"a">>)
ATTR_ONCLICK == Attr(<<"o", "n", "c", "l", "i", "c", "k">>, <<"a">>)
ATTR_ONLOAD  == Attr(<<"o", "n", "l", "o", "a", "d">>, <<"a">>)
ATTR_HREF_JS == Attr(<<"h", "r", "e", "f">>,
                     <<"J", "a", "v", "a", "S", "c", "r", "i", "p", "t", ":", "a">>)

SvgAttrLists == { <<>>, <<ATTR_ONCLICK, ATTR_ONLOAD, ATTR_ID>>, <<ATTR_HREF_JS>> }

RECURSIVE TreesOfSize(_), ForestsOfSize(_)
\* The elements with exactly n elements in their subtree.
TreesOfSize(n) ==
    {Element(tag, attrs, kids) :
        tag \in SvgTags, attrs \in SvgAttrLists, kids \in ForestsOfSize(n - 1)}

\* The sequences of elements with m elements in all.
ForestsOfSize(m) ==
    IF m = 0 THEN {<<>>}
    ELSE UNION {{<<t>> \o f : t \in TreesOfSize(k), f \in ForestsOfSize(m - k)} : k \in 1..m}

\* How a text is written: as the serializer writes it; as an author writes it
\* (a childless element as a start-tag and an end-tag, attributes in single
\* quotes); or as an author who forgets the last end-tag.
MarkupStyles == {"serializer", "author", "unclosed"}

WrittenAttrs(attrs, q) ==
    [i \in 1..Len(attrs) |-> [name |-> attrs[i].name, value |-> attrs[i].value, q |-> q]]

RECURSIVE AuthorMarkup(_)
AuthorMarkup(nodes) ==
    IF nodes = <<>> THEN <<>>
    ELSE LET e == Head(nodes)
         IN  <<StartTag(e.tag, WrittenAttrs(e.attrs, "'"))>> \o AuthorMarkup(e.kids)
                 \o <<EndTag(e.tag)>> \o AuthorMarkup(Tail(nodes))

WriteMarkup(tree, style) ==
    CASE style = "serializer" -> serializeToString(<<tree>>)
      [] style = "author" -> AuthorMarkup(<<tree>>)
      [] style = "unclosed" ->
            LET t == AuthorMarkup(<<tree>>) IN SubSeq(t, 1, Len(t) - 1)

SvgInputs ==
    {WriteMarkup(tree, style) :
        tree \in UNION {TreesOfSize(n) : n \in 1..MaxElems}, style \in MarkupStyles}

InitSvgVars ==
    /\ svgIn \in SvgInputs
    /\ svgStage = 0
    /\ svgOut1 = Returned(<<>>)
    /\ svgOut2 = Returned(<<>>)

\* _sanitizeSvgContent(svgIn)
SanitizeExport ==
    /\ svgStage = 0
    /\ svgStage' = 1
    /\ svgOut1' = sanitizeSvgContent(svgIn)
    /\ UNCHANGED <<svgIn, svgOut2>>

\* _sanitizeSvgContent applied to what the first call returned
SanitizeExportAgain ==
    /\ svgStage = 1
    /\ ~svgOut1.threw
    /\ svgStage' = 2
    /\ svgOut2' = sanitizeSvgContent(svgOut1.value)
    /\ UNCHANGED <<svgIn, svgOut1>>


(***************************************************************************)
(* Renderer, ThemeManager and Editor: values and pure parts                *)
(***************************************************************************)

Whitespace == {" ", "\n", "\t"}

RECURSIVE TrimStart(_)
TrimStart(s) == IF s # <<>> /\ Head(s) \in Whitespace THEN TrimStart(Tail(s)) ELSE s

RECURSIVE TrimEnd(_)
TrimEnd(s) ==
    IF s # <<>> /\ s[Len(s)] \in Whitespace THEN TrimEnd(SubSeq(s, 1, Len(s) - 1)) ELSE s

\* A trim that removes nothing.
TrimNothing(s) == s

\* String.prototype.trim.
Trim(s) == TrimEnd(TrimStart(s))

\* --- nodes of the render surface

\* A child of #mermaidOutput.  id and src tell which render an svg came from
\* (the svg carries the id, and is drawn from the source); transform is the
\* svg's style.transform as <<scale, x, y>>, <<>> while none has been applied.
Node(kind, id, src, transform) ==
    [kind |-> kind, id |-> id, src |-> src, transform |-> transform]

NoId == -1

\* <p style="color: orange;">Enter diagram code and click render</p>
PromptNode == Node("prompt", NoId, <<>>, <<>>)

\* <p style="color: red;">Error rendering diagram: ...</p>; the message is the
\* library's, for the source it was given.
ErrorNode(src) == Node("error", NoId, src, <<>>)

\* The svg that mermaid.render(id, text) resolves with.
SvgNode(id, src) == Node("svg", id, src, <<>>)

\* div#zoom-controls with its four buttons.
ZoomControls == Node("zoom-controls", NoId, <<>>, <<>>)

\* div.scroll-indicator
ScrollIndicator == Node("scroll-indicator", NoId, <<>>, <<>>)

\* The nodes of a list that are of one kind: querySelectorAll.
OfKind(nodes, kind) == SelectSeq(nodes, LAMBDA n : n.kind = kind)

Without(nodes, kind) == SelectSeq(nodes, LAMBDA n : n.kind # kind)

\* --- zoom, in tenths: 0.1 is 1, 0.2 is 2, 1 is 10, 5 is 50

ZOOM_STEP == 1
ZOOM_MIN == 2
ZOOM_MAX == 50
ZOOM_INITIAL == 10

Max(a, b) == IF a >= b THEN a ELSE b
Min(a, b) == IF a <= b THEN a ELSE b

\* A zoom that forgets the limits.
UnclampedZoom(level, delta) == level + delta

\* newZoom = Math.max(0.2, Math.min(5, this.zoomLevel + delta))
ClampedZoom(level, delta) == Max(ZOOM_MIN, Min(ZOOM_MAX, level + delta))

\* applyTransform on the first svg of the surface, when there is one: what
\* zoom, resetZoom and setupZoomAndPan do after querySelector('svg').
applyTransform(nodes, z, x, y) ==
    LET first == CHOOSE i \in 1..(Len(nodes) + 1) :
                     /\ i <= Len(nodes) => nodes[i].kind = "svg"
                     /\ \A j \in 1..(i - 1) : nodes[j].kind # "svg"
    IN  [i \in 1..Len(nodes) |->
            IF i = first THEN [nodes[i] EXCEPT !.transform = <<z, x, y>>] ELSE nodes[i]]

\* --- themes

THEME_STORAGE_KEY == "mermaid-theme"
DEFAULT_THEME_KEY == "default"

\* _initializeThemeDefinitions: the object's own properties.
themes ==
    [k \in {"default", "dark", "custom"} |->
        CASE k = "default" ->
               [mermaidTheme |-> "default", cssClass |-> "theme-default",
                variables |-> "defaultThemeVariables"]
          [] k = "dark" ->
               [mermaidTheme |-> "base", cssClass |-> "theme-dark",
                variables |-> "darkThemeVariables"]
          [] k = "custom" ->
               [mermaidTheme |-> "base", cssClass |-> "theme-custom",
                variables |-> "customThemeVariables"]]

\* Property names every object inherits from Object.prototype (one of them).
ObjectPrototypeKeys == {"toString"}

\* this.themes[key] is truthy: an own property, or an inherited member.
ThemeLookupTruthy(key) == key \in DOMAIN themes \/ key \in ObjectPrototypeKeys

\* this.themes[key]: the theme, or a value whose mermaidTheme, cssClass and
\* variables are undefined.
ThemeLookup(key) ==
    IF key \in DOMAIN themes THEN themes[key]
    ELSE [mermaidTheme |-> "undefined", cssClass |-> "undefined", variables |-> "undefined"]

\* A validity test by truthiness of this.themes[themeKey].
isValidThemeByLookup(themeKey) == themeKey # "" /\ ThemeLookupTruthy(themeKey)

\* _isValidTheme: themeKey && typeof themeKey === 'string' && hasOwnProperty.
isValidTheme(themeKey) == themeKey # "" /\ themeKey \in DOMAIN themes

NoItem == "(no item)"

\* A load that takes whatever the storage item holds.
loadSavedThemeUnchecked(saved, getItemThrows) ==
    IF getItemThrows THEN DEFAULT_THEME_KEY
    ELSE IF saved # NoItem THEN saved
    ELSE DEFAULT_THEME_KEY

\* _loadSavedTheme, from the constructor's currentTheme = DEFAULT_THEME_KEY.
loadSavedTheme(saved, getItemThrows) ==
    IF getItemThrows THEN DEFAULT_THEME_KEY
    ELSE IF saved # NoItem /\ isValidTheme(saved) THEN saved
    ELSE DEFAULT_THEME_KEY

\* A save that writes nothing.
saveThemeNowhere(stored, themeKey, setItemThrows) == stored

\* _saveTheme: the item after localStorage.setItem, whose failure is swallowed.
saveTheme(stored, themeKey, setItemThrows) ==
    IF setItemThrows THEN stored ELSE themeKey

\* The configuration _applyTheme hands to mermaid.initialize.
MermaidConfigFor(themeKey) ==
    [theme |-> ThemeLookup(themeKey).mermaidTheme,
     themeVariables |-> ThemeLookup(themeKey).variables]

\* An application of the class that removes no other class.
applyThemeToOutputAddOnly(classes, active) ==
    classes \cup {ThemeLookup(active).cssClass}

\* _applyThemeToOutput on the class list of #mermaidOutput.
applyThemeToOutput(classes, active) ==
    IF ~ThemeLookupTruthy(active) THEN classes
    ELSE (classes \ {themes[k].cssClass : k \in DOMAIN themes})
             \cup {ThemeLookup(active).cssClass}

\* --- renderDiagram and what follows it

\* A test that forgets whitespace.
IsBlankUntrimmed(content) == content = <<>>

\* !content || content.trim() === ''
IsBlank(content) == content = <<>> \/ Trim(content) = <<>>

\* `mermaid-diagram-${Date.now()}`, identified by its timestamp.
DiagramId(now) == now

\* What renderDiagram reads and writes of the document and the library.
Dom == [outputDiv |-> outputDiv, pending |-> pending, tempNodes |-> tempNodes]

\* renderDiagram(content) up to its await: the prompt for blank content;
\* otherwise the surface is cleared, an id is made and mermaid.render is called
\* with the escaped content (the library attaches its intermediate node).
renderDiagram(content, dom, now) ==
    IF IsBlank(content)
    THEN [dom EXCEPT !.outputDiv = <<PromptNode>>]
    ELSE [outputDiv |-> <<>>,
          pending   |-> Append(dom.pending,
                               [id |-> DiagramId(now),
                                text |-> Renderer_sanitizeInput(content)]),
          tempNodes |-> dom.tempNodes \cup {DiagramId(now)}]

\* A reRender that submits nothing.
reRenderNothing(value, dom, now) == dom

\* reRender(): value is the textarea's value.
reRender(value, dom, now) ==
    IF value # <<>> /\ Trim(value) # <<>> THEN renderDiagram(value, dom, now) ELSE dom

\* addZoomControlsToDOM: an existing #zoom-controls is removed, a new one appended.
addZoomControlsToDOM(nodes) == Without(nodes, "zoom-controls") \o <<ZoomControls>>

\* addScrollIndicator: an existing .scroll-indicator is removed, a new one appended.
addScrollIndicator(nodes) == Without(nodes, "scroll-indicator") \o <<ScrollIndicator>>

\* A continuation that shows every new diagram untransformed.
SurfaceAfterSuccessIdentity(r) ==
    LET withControls == addZoomControlsToDOM(<<SvgNode(r.id, r.text)>>)
        transformed  == applyTransform(withControls, ZOOM_INITIAL, 0, 0)
    IN  IF isMobileView THEN addScrollIndicator(transformed) ELSE transformed

\* A continuation that writes the surface only for the render submitted last.
SurfaceAfterSuccessIfLatest(r) ==
    IF r = pending[Len(pending)]
    THEN LET withControls == addZoomControlsToDOM(<<SvgNode(r.id, r.text)>>)
             transformed  == applyTransform(withControls, zoomLevel, translateX, translateY)
         IN  IF isMobileView THEN addScrollIndicator(transformed) ELSE transformed
    ELSE outputDiv

\* The surface after the await of a render that resolved with an svg.
SurfaceAfterSuccess(r) ==
    LET withSvg      == <<SvgNode(r.id, r.text)>>
        withControls == addZoomControlsToDOM(withSvg)
        transformed  == applyTransform(withControls, zoomLevel, translateX, translateY)
    IN  IF isMobileView THEN addScrollIndicator(transformed) ELSE transformed

\* A handler that removes no node.
removeErrorDivsNone(nodes) == nodes

\* document.querySelectorAll('div[id^="dmermaid-diagram"]').forEach(div => div.remove())
removeErrorDivs(nodes) == {}

RemoveAt(s, i) == SubSeq(s, 1, i - 1) \o SubSeq(s, i + 1, Len(s))

Call(op, arg, ret) == [op |-> op, arg |-> arg, ret |-> ret]

\* How a content reads: "empty", "whitespace" (only), or "source".
ContentClass(content) ==
    IF content = <<>> THEN "empty"
    ELSE IF Trim(content) = <<>> THEN "whitespace"
    ELSE "source"


(***************************************************************************)
(* The application's operations                                            *)
(***************************************************************************)

\* Renders in flight at once (a cap on the model, not of the program).
MaxPending == 1

\* Renders in flight at once where renders overlap (SpecRender).
MaxInFlight == 2

\* The last millisecond of the model's clock.
MaxClock == 1

EditorTexts == { <<>>, <<" ">>, <<" ", "<">> }

\* Contents handed to renderDiagram where renders overlap: two sources, so
\* that two renders' results differ.
RenderTexts == EditorTexts \cup { <<"a">> }

ThemeKeyInputs == (DOMAIN themes) \cup {"neon", "", "toString"}

StoredValues == (DOMAIN themes) \cup {NoItem, "neon"}

ZoomDeltas == {-100, -7, 7, 100}

CanSubmit == Len(pending) < MaxPending

SetDom(dom) ==
    /\ outputDiv' = dom.outputDiv
    /\ pending' = dom.pending
    /\ tempNodes' = dom.tempNodes

\* Editor.setContent(content), or the user typing into the textarea.
SetContent(content) ==
    /\ editorText' = content
    /\ lastCall' = Call("setContent", "-", "void")
    /\ UNCHANGED <<varsRender, varsView, varsTheme>>

\* A millisecond passes.
Tick ==
    /\ clock < MaxClock
    /\ clock' = clock + 1
    /\ UNCHANGED <<editorText, pending, outputDiv, tempNodes, isMobileView,
                   varsView, varsTheme, lastCall>>

\* The 'diagram-update' listener: renderDiagram(event.detail.content), with
\* fewer than cap renders in flight.
DiagramUpdateWithin(content, cap) ==
    LET dom == renderDiagram(content, Dom, clock)
    IN  /\ IsBlank(content) \/ Len(pending) < cap
        /\ SetDom(dom)
        /\ lastCall' = Call("renderDiagram", ContentClass(content),
                            IF dom.pending = pending THEN "prompt" ELSE "submitted")
        /\ UNCHANGED <<editorText, clock, isMobileView, varsView, varsTheme>>

DiagramUpdate(content) == DiagramUpdateWithin(content, MaxPending)

\* A click on #renderBtn: the trimmed text is dispatched unless it is empty.
RenderButtonClick ==
    LET content == Trim(editorText)
    IN  /\ content = <<>> \/ CanSubmit
        /\ IF content = <<>>
           THEN /\ UNCHANGED <<outputDiv, pending, tempNodes>>
                /\ lastCall' = Call("renderClick", ContentClass(editorText), "ignored")
           ELSE /\ SetDom(renderDiagram(content, Dom, clock))
                /\ lastCall' = Call("renderClick", "source", "dispatched")
        /\ UNCHANGED <<editorText, clock, isMobileView, varsView, varsTheme>>

\* mermaid.render resolves for the i-th call in flight and renderDiagram
\* continues after its await.
RenderSucceeded(i) ==
    /\ i \in 1..Len(pending)
    /\ pending' = RemoveAt(pending, i)
    /\ tempNodes' = tempNodes \ {pending[i].id}
    /\ outputDiv' = SurfaceAfterSuccess(pending[i])
    /\ themeClasses' = IF windowApp THEN applyThemeToOutput(themeClasses, currentTheme)
                       ELSE themeClasses
    /\ lastCall' = Call("renderSucceeded", "-", "void")
    /\ UNCHANGED <<editorText, clock, isMobileView, varsView,
                   currentTheme, themeStore, mermaidConfig, windowApp>>

\* mermaid.render rejects for the i-th call in flight, leaving its
\* intermediate node in the document or not, and the catch block runs.
RenderFailed(i, nodeLeft) ==
    /\ i \in 1..Len(pending)
    /\ pending' = RemoveAt(pending, i)
    /\ tempNodes' = removeErrorDivs(IF nodeLeft THEN tempNodes \cup {pending[i].id}
                                    ELSE tempNodes \ {pending[i].id})
    /\ outputDiv' = <<ErrorNode(pending[i].text)>>
    /\ lastCall' = Call("renderFailed", "-", "void")
    /\ UNCHANGED <<editorText, clock, isMobileView, varsView, varsTheme>>

\* What may fail inside switchTheme whatever the document holds: nothing,
\* mermaid.initialize, or localStorage.setItem (whose failure _saveTheme
\* swallows).  reRender throws when the document has no #mermaidInput to read.
Faults == {"none", "initialize", "setItem"}

\* A fault can only happen in a call that gets as far as the try block.
FaultsFor(themeKey) ==
    IF isValidTheme(themeKey) /\ themeKey # currentTheme THEN Faults ELSE {"none"}

\* ThemeManager.switchTheme(themeKey)
SwitchTheme(themeKey, fault) ==
    IF ~isValidTheme(themeKey)
    THEN /\ lastCall' = Call("switchTheme", themeKey, "false")
         /\ UNCHANGED <<editorText, varsRender, varsView, varsTheme>>
    ELSE IF themeKey = currentTheme
    THEN /\ lastCall' = Call("switchTheme", themeKey, "true")
         /\ UNCHANGED <<editorText, varsRender, varsView, varsTheme>>
    ELSE IF ~ThemeLookupTruthy(themeKey) \/ fault = "initialize"
    THEN \* _applyTheme throws: currentTheme is rolled back
         /\ lastCall' = Call("switchTheme", themeKey, "false")
         /\ UNCHANGED <<editorText, varsRender, varsView, varsTheme>>
    ELSE IF ~inputPresent
    THEN \* the theme is applied and saved, reRender throws, and the catch
         \* block puts currentTheme back
         /\ mermaidConfig' = MermaidConfigFor(themeKey)
         /\ themeClasses' = applyThemeToOutput(themeClasses, themeKey)
         /\ themeStore' = saveTheme(themeStore, themeKey, fault = "setItem")
         /\ lastCall' = Call("switchTheme", themeKey, "false")
         /\ UNCHANGED <<editorText, varsRender, varsView, currentTheme, windowApp>>
    ELSE /\ IsBlank(editorText) \/ CanSubmit
         /\ currentTheme' = themeKey
         /\ mermaidConfig' = MermaidConfigFor(themeKey)
         /\ themeClasses' = applyThemeToOutput(themeClasses, themeKey)
         /\ themeStore' = saveTheme(themeStore, themeKey, fault = "setItem")
         /\ SetDom(reRender(editorText, Dom, clock))
         /\ lastCall' = Call("switchTheme", themeKey, "true")
         /\ UNCHANGED <<editorText, clock, isMobileView, varsView, windowApp>>

\* The textarea #mermaidInput is taken out of the document.
InputRemoved ==
    /\ inputPresent
    /\ inputPresent' = FALSE
    /\ lastCall' = Call("inputRemoved", "-", "void")
    /\ UNCHANGED <<editorText, varsRender, varsView, varsTheme>>

\* App._setupGlobalAccess: window.app = this, at the end of initialization.
SetupGlobalAccess ==
    /\ ~windowApp
    /\ windowApp' = TRUE
    /\ lastCall' = Call("setupGlobalAccess", "-", "void")
    /\ UNCHANGED <<editorText, varsRender, varsView,
                   currentTheme, themeStore, mermaidConfig, themeClasses>>

\* The page is loaded again: the document and every object are new, the
\* storage item stays.  Renderer and ThemeManager are constructed; the
\* textarea is empty until setContent or the user fills it.
Reload(getItemThrows, mobile) ==
    /\ editorText' = <<>>
    /\ pending' = <<>>
    /\ outputDiv' = <<>>
    /\ tempNodes' = {}
    /\ isMobileView' = mobile
    /\ zoomLevel' = ZOOM_INITIAL
    /\ panEnabled' = FALSE
    /\ translateX' = 0
    /\ translateY' = 0
    /\ currentTheme' = loadSavedTheme(themeStore, getItemThrows)
    /\ mermaidConfig' = MermaidConfigFor(currentTheme')
    /\ themeClasses' = applyThemeToOutput({}, currentTheme')
    /\ windowApp' = FALSE
    /\ lastCall' = Call("construct", "-", "void")
    /\ UNCHANGED <<clock, themeStore>>

\* Renderer.zoom(delta)
ZoomBy(delta, op) ==
    /\ zoomLevel' = ClampedZoom(zoomLevel, delta)
    /\ outputDiv' = applyTransform(outputDiv, zoomLevel', translateX, translateY)
    /\ lastCall' = Call(op, "-", "void")
    /\ UNCHANGED <<editorText, clock, pending, tempNodes, isMobileView,
                   panEnabled, translateX, translateY, varsTheme>>

ZoomIn == ZoomBy(ZOOM_STEP, "zoomIn")

ZoomOut == ZoomBy(-ZOOM_STEP, "zoomOut")

Zoom(delta) == ZoomBy(delta, "zoom")

\* svgElement.onwheel: delta = e.deltaY > 0 ? -0.1 : 0.1
WheelZoom(deltaY) ==
    /\ OfKind(outputDiv, "svg") # <<>>
    /\ ZoomBy(IF deltaY > 0 THEN -ZOOM_STEP ELSE ZOOM_STEP, "wheel")

ResetZoom ==
    /\ zoomLevel' = ZOOM_INITIAL
    /\ translateX' = 0
    /\ translateY' = 0
    /\ outputDiv' = applyTransform(outputDiv, zoomLevel', translateX', translateY')
    /\ lastCall' = Call("resetZoom", "-", "void")
    /\ UNCHANGED <<editorText, clock, pending, tempNodes, isMobileView,
                   panEnabled, varsTheme>>

TogglePan ==
    /\ panEnabled' = ~panEnabled
    /\ lastCall' = Call("togglePan", "-", "void")
    /\ UNCHANGED <<editorText, varsRender, zoomLevel, translateX, translateY, varsTheme>>

\* The window's resize listener.
Resize(mobile) ==
    /\ isMobileView' = mobile
    /\ lastCall' = Call("resize", "-", "void")
    /\ UNCHANGED <<editorText, clock, pending, outputDiv, tempNodes, varsView, varsTheme>>

\* The timers of addScrollIndicator: an indicator still attached is removed.
ScrollIndicatorTimeout ==
    /\ OfKind(outputDiv, "scroll-indicator") # <<>>
    /\ outputDiv' = Without(outputDiv, "scroll-indicator")
    /\ lastCall' = Call("indicatorTimeout", "-", "void")
    /\ UNCHANGED <<editorText, clock, pending, tempNodes, isMobileView,
                   varsView, varsTheme>>

\* The state after the page is first loaded and the objects are constructed.
InitApp(stores, mobiles) ==
    /\ themeStore \in stores
    /\ editorText = <<>>
    /\ isMobileView \in mobiles
    /\ clock = 0
    /\ pending = <<>>
    /\ outputDiv = <<>>
    /\ tempNodes = {}
    /\ zoomLevel = ZOOM_INITIAL
    /\ panEnabled = FALSE
    /\ translateX = 0
    /\ translateY = 0
    /\ \E getItemThrows \in BOOLEAN :
          currentTheme = loadSavedTheme(themeStore, getItemThrows)
    /\ mermaidConfig = MermaidConfigFor(currentTheme)
    /\ themeClasses = applyThemeToOutput({}, currentTheme)
    /\ windowApp = FALSE
    /\ lastCall = Call("construct", "-", "void")


\* --- the drag handlers that setupZoomAndPan installs after a render

\* The largest clientX and clientY of a pointer event (a cap on the model).
MaxCoord == 1

Coords == 0..MaxCoord

\* The furthest a drag may take the translation (a cap on the model).
MaxTranslate == 1

Translations == (0 - MaxTranslate)..MaxTranslate

\* Touches on the screen in a touch event.
TouchCounts == {1, 2}

NoDragStart == [x |-> 0, y |-> 0, translateX |-> 0, translateY |-> 0]

NoPointer == [x |-> 0, y |-> 0]

\* No drag is in progress: there is nothing to observe of one.
ObserveNoDrag == dragStart' = NoDragStart /\ pointer' = NoPointer

\* let isDragging = false; let startX, startY;
InitPanVars ==
    /\ isDragging = FALSE
    /\ startX = 0
    /\ startY = 0
    /\ dragStart = NoDragStart
    /\ pointer = NoPointer

\* setupZoomAndPan() after a render: the new svg element gets its handlers,
\* document.onmousemove and onmouseup are replaced, and the handlers share a
\* new isDragging, startX and startY.
SetupZoomAndPan ==
    /\ isDragging' = FALSE
    /\ startX' = 0
    /\ startY' = 0
    /\ ObserveNoDrag

\* An offset that forgets where the diagram already is.
DragOffsetAbsolute(client, translate) == client

\* startX = e.clientX - this.translateX
DragOffset(client, translate) == client - translate

\* this.translateX = e.clientX - startX
DragTranslation(client, start) == client - start

\* onmousedown and ontouchstart on the svg element, after their guards.
DragBegin(x, y, op) ==
    /\ isDragging' = TRUE
    /\ startX' = DragOffset(x, translateX)
    /\ startY' = DragOffset(y, translateY)
    /\ dragStart' = [x |-> x, y |-> y, translateX |-> translateX, translateY |-> translateY]
    /\ pointer' = [x |-> x, y |-> y]
    /\ lastCall' = Call(op, "-", "drag")
    /\ UNCHANGED <<editorText, varsRender, varsView, varsTheme>>

\* onmousemove and ontouchmove, after their guards.
DragTo(x, y, op) ==
    /\ DragTranslation(x, startX) \in Translations
    /\ DragTranslation(y, startY) \in Translations
    /\ translateX' = DragTranslation(x, startX)
    /\ translateY' = DragTranslation(y, startY)
    /\ outputDiv' = applyTransform(outputDiv, zoomLevel, translateX', translateY')
    /\ pointer' = [x |-> x, y |-> y]
    /\ lastCall' = Call(op, "-", "panned")
    /\ UNCHANGED <<editorText, clock, pending, tempNodes, isMobileView,
                   zoomLevel, panEnabled, varsTheme, isDragging, startX, startY, dragStart>>

\* A handler that returned at its guard.
PointerIgnored(op) ==
    /\ lastCall' = Call(op, "-", "ignored")
    /\ UNCHANGED <<editorText, varsRender, varsView, varsTheme, varsPan>>

\* svgElement.onmousedown: the pointer goes down on the diagram.
MouseDown(x, y) ==
    /\ OfKind(outputDiv, "svg") # <<>>
    /\ IF ~panEnabled THEN PointerIgnored("mousedown") ELSE DragBegin(x, y, "mousedown")

\* document.onmousemove
MouseMove(x, y) ==
    IF ~isDragging \/ ~panEnabled THEN PointerIgnored("mousemove")
    ELSE DragTo(x, y, "mousemove")

\* document.onmouseup
MouseUp ==
    IF ~isDragging THEN PointerIgnored("mouseup")
    ELSE /\ isDragging' = FALSE
         /\ lastCall' = Call("mouseup", "-", "void")
         /\ ObserveNoDrag
         /\ UNCHANGED <<editorText, varsRender, varsView, varsTheme, startX, startY>>

\* svgElement.ontouchstart
TouchStart(touches, x, y) ==
    /\ OfKind(outputDiv, "svg") # <<>>
    /\ IF ~panEnabled \/ touches # 1 THEN PointerIgnored("touchstart")
       ELSE DragBegin(x, y, "touchstart")

\* svgElement.ontouchmove
TouchMove(touches, x, y) ==
    /\ OfKind(outputDiv, "svg") # <<>>
    /\ IF ~isDragging \/ ~panEnabled \/ touches # 1 THEN PointerIgnored("touchmove")
       ELSE DragTo(x, y, "touchmove")

\* svgElement.ontouchend
TouchEnd ==
    /\ OfKind(outputDiv, "svg") # <<>>
    /\ isDragging' = FALSE
    /\ lastCall' = Call("touchend", "-", "void")
    /\ ObserveNoDrag
    /\ UNCHANGED <<editorText, varsRender, varsView, varsTheme, startX, startY>>

(***************************************************************************)
(* The export operations (ExportManager.exportSVG and exportPNG)           *)
(***************************************************************************)

NO_DIAGRAM == "No diagram to export! Please render a diagram first."
EXPORT_ERROR_SVG == "Error exporting SVG. Please try again."
EXPORT_ERROR_PNG == "Error exporting PNG. Please try again."

\* The messages of the errors thrown inside the try blocks.
INVALID_SVG == "Invalid SVG content. Export aborted."
HTML2CANVAS_NOT_LOADED == "html2canvas library is not loaded. PNG export unavailable."
FILE_TOO_LARGE == "Export file is too large (max 10MB)"
SANITIZATION_FAILED == "SVG sanitization failed: SVG parsing failed"
SANITIZED_TOO_LARGE == "SVG sanitization failed: Export file is too large (max 10MB)"
DOWNLOAD_FAILED == "Download failed"
PNG_BLOB_FAILED == "Failed to create PNG blob"
\* The error html2canvas rejected with.
HTML2CANVAS_REJECTED == "(html2canvas error)"

\* console.error was not called.
NoError == "(no error)"

\* No alert() was called.
NoAlert == "(no alert)"

\* A downloaded file: its MIME type and its size in bytes.
File(type, bytes) == [type |-> type, bytes |-> bytes]

\* link.click() was not reached.
NoFile == File("(no file)", 0)

\* A character that takes one UTF-16 code unit and two bytes in UTF-8.
EACUTE == "é"

\* Bytes of a character in the UTF-8 encoding a Blob gives a string part.
Utf8Bytes(c) == IF c = EACUTE THEN 2 ELSE 1

RECURSIVE Utf8Length(_)
\* Bytes of a text in UTF-8.
Utf8Length(text) ==
    IF text = <<>> THEN 0 ELSE Utf8Bytes(Head(text)) + Utf8Length(Tail(text))

\* new Blob([markup]).size: the markup's length with every character
\* counted in bytes.
BlobSize(t) ==
    LET Extra(x) == SumLengths([i \in 1..Len(x.attrs) |->
                        [k \in 1..(Utf8Length(x.attrs[i].name \o x.attrs[i].value)
                                   - Len(x.attrs[i].name \o x.attrs[i].value)) |-> k]])
        RECURSIVE Total(_)
        Total(u) == IF u = <<>> THEN 0 ELSE Extra(Head(u)) + Total(Tail(u))
    IN  MarkupLength(t) + Total(t)

\* options.maxFileSize || MAX_EXPORT_SIZE; an option left out reads as 0 here.
ConfiguredMaxFileSize(option) == IF option = 0 THEN MAX_EXPORT_SIZE ELSE option

\* What an export call did: its return value, the alert, the error handed to
\* console.error and the download.
Exported(file) ==
    [ret |-> "true", alerted |-> NoAlert, logged |-> NoError, downloaded |-> file]

\* A catch block that shows nothing.
showErrorSilently(message, error) ==
    [ret |-> "false", alerted |-> NoAlert, logged |-> error, downloaded |-> NoFile]

\* The catch block: _showError(message, error) and return false.
showError(message, error) ==
    [ret |-> "false", alerted |-> message, logged |-> error, downloaded |-> NoFile]

\* _downloadFile(blob, fileName): URL.createObjectURL may throw before the
\* link is clicked.
downloadFile(file, createObjectURLThrows) ==
    IF createObjectURLThrows THEN Threw ELSE Returned(file)

\* exportSVG(): surface is #mermaidOutput, rawSvgContent the serialization of
\* its first svg element.
exportSVG(surface, rawSvgContent, limit, createObjectURLThrows) ==
    IF OfKind(surface, "svg") = <<>>
    THEN showError(EXPORT_ERROR_SVG, NO_DIAGRAM)
    ELSE LET sanitized == sanitizeSvgContentWithin(rawSvgContent, limit)
         IN  IF sanitized.threw
             THEN showError(EXPORT_ERROR_SVG,
                            IF rawSvgContent = <<>> \/ parseFromString(rawSvgContent).parsererror
                            THEN SANITIZATION_FAILED ELSE SANITIZED_TOO_LARGE)
             ELSE IF sanitized.value = <<>>
             THEN showError(EXPORT_ERROR_SVG, INVALID_SVG)
             ELSE LET blob == File("image/svg+xml", BlobSize(sanitized.value))
                      done == downloadFile(blob, createObjectURLThrows)
                  IN  IF done.threw THEN showError(EXPORT_ERROR_SVG, DOWNLOAD_FAILED)
                      ELSE Exported(done.value)

\* What html2canvas and canvas.toBlob come to.
CanvasOutcomes == {"html2canvas rejects", "no blob", "blob"}

\* exportPNG(): canvas is the outcome of html2canvas and toBlob, size the
\* blob's size.
exportPNG(surface, available, canvas, size, limit, createObjectURLThrows) ==
    IF ~available
    THEN showError(EXPORT_ERROR_PNG, HTML2CANVAS_NOT_LOADED)
    ELSE IF OfKind(surface, "svg") = <<>>
    THEN showError(EXPORT_ERROR_PNG, NO_DIAGRAM)
    ELSE IF canvas = "html2canvas rejects"
    THEN showError(EXPORT_ERROR_PNG, HTML2CANVAS_REJECTED)
    ELSE IF canvas = "no blob"
    THEN showError(EXPORT_ERROR_PNG, PNG_BLOB_FAILED)
    ELSE IF size > limit
    THEN showError(EXPORT_ERROR_PNG, FILE_TOO_LARGE)
    ELSE LET done == downloadFile(File("image/png", size), createObjectURLThrows)
         IN  IF done.threw THEN showError(EXPORT_ERROR_PNG, DOWNLOAD_FAILED)
             ELSE Exported(done.value)

\* Serializations of the surface's svg element: bare, with an attribute of
\* ASCII or of non-ASCII value, with a script child, and one that the XML
\* parser rejects.
RawSvgContents ==
    { serializeToString(<<Element("svg", <<>>, <<>>)>>),
      serializeToString(<<Element("svg", <<Attr(<<"i", "d">>, <<"a">>)>>, <<>>)>>),
      serializeToString(<<Element("svg", <<Attr(<<"i", "d">>, <<EACUTE>>)>>, <<>>)>>),
      serializeToString(<<Element("svg", <<>>, <<Element("script", <<>>, <<>>)>>)>>),
      <<StartTag("svg", <<>>)>> }

\* maxFileSize options of the constructor: left out, the length of
\* <svg id="a"/>, and the length of <svg/>.
MaxFileSizeOptions == {0, 13, 6}

PngBlobSizes == {1, maxFileSize, maxFileSize + 1}

InitExpVars(availables, options) ==
    /\ pngExportAvailable \in availables
    /\ \E option \in options : maxFileSize = ConfiguredMaxFileSize(option)
    /\ alerted = NoAlert
    /\ consoleError = NoError
    /\ downloaded = NoFile

SetExported(r, op) ==
    /\ alerted' = r.alerted
    /\ consoleError' = r.logged
    /\ downloaded' = r.downloaded
    /\ lastCall' = Call(op, "-", r.ret)
    /\ UNCHANGED <<pngExportAvailable, maxFileSize,
                   editorText, varsRender, varsView, varsTheme>>

\* A click on #exportSVG, or a call of exportSVG().
ExportSVG(rawSvgContent, createObjectURLThrows) ==
    SetExported(exportSVG(outputDiv, rawSvgContent, maxFileSize, createObjectURLThrows),
                "exportSVG")

\* A click on #exportPNG, or a call of exportPNG(), up to its return; the
\* surface the awaits may see changed is not read after them.
ExportPNG(canvas, size, createObjectURLThrows) ==
    SetExported(exportPNG(outputDiv, pngExportAvailable, canvas, size, maxFileSize,
                          createObjectURLThrows),
                "exportPNG")


(***************************************************************************)
(* sanitizer.js: sanitizeInput                                             *)
(***************************************************************************)

GT      == <<"&", "g", "t", ";">>
APOS    == <<"&", "#", "x", "2", "7", ";">>
SOLIDUS == <<"&", "#", "x", "2", "F", ";">>

\* The character class of the regular expression /[<>&"'/]/g.
HtmlEscapeClass == {"<", ">", "&", "\"", "'", "/"}

\* A map that forgets '/'.
htmlEntityMapNoSolidus == [c \in HtmlEscapeClass \ {"/"} |->
    CASE c = "<" -> LT [] c = ">" -> GT [] c = "&" -> AMP [] c = "\"" -> QUOT
      [] c = "'" -> APOS]

htmlEntityMap == [c \in HtmlEscapeClass |->
    CASE c = "<" -> LT [] c = ">" -> GT [] c = "&" -> AMP [] c = "\"" -> QUOT
      [] c = "'" -> APOS [] c = "/" -> SOLIDUS]

\* The replace callback: htmlEntityMap[char] || char.
HtmlReplacer(c) == IF c \in DOMAIN htmlEntityMap THEN htmlEntityMap[c] ELSE <<c>>

\* sanitizeInput(input) for a string input.
sanitizeInput(input) ==
    ReplaceAll(input, HtmlEscapeClass, [c \in HtmlEscapeClass |-> HtmlReplacer(c)])


(***************************************************************************)
(* LoadExamples: the catalogue fetch with retries, and its parser          *)
(***************************************************************************)

RETRY_ATTEMPTS == 3
LOAD_MAX_FILE_SIZE == 1024 * 1024

NL == <<"\n">>
HEADING == <<"#", "#", " ">>
\* The grave accent, a character a TLA+ string cannot hold, by its code point.
GRAVE == "U+0060"
FENCE == <<GRAVE, GRAVE, GRAVE>>
\* The middle of EXAMPLE_PARSER: newline, fence, 'mermaid', newline.
OPENING == NL \o FENCE \o <<"m", "e", "r", "m", "a", "i", "d">> \o NL

\* The first position from p on where t occurs in s, or 0.
IndexFrom(s, p, t) ==
    LET hits == {q \in p..Len(s) : OccursAt(s, q, t)}
    IN  IF hits = {} THEN 0 ELSE CHOOSE q \in hits : \A r \in hits : q <= r

NoMatch == [ok |-> FALSE, title |-> <<>>, code |-> <<>>, lastIndex |-> 0]

\* EXAMPLE_PARSER matched at position p: '## ', a title of one or more
\* characters up to the end of its line, the opening fence, and a code of one
\* or more characters up to the first closing fence after it.
MatchAt(content, p) ==
    LET nl        == IndexFrom(content, p + Len(HEADING), NL)
        codeStart == nl + Len(OPENING)
        close     == IndexFrom(content, codeStart + 1, FENCE)
    IN  IF /\ OccursAt(content, p, HEADING)
           /\ nl > p + Len(HEADING)
           /\ OccursAt(content, nl, OPENING)
           /\ close # 0
        THEN [ok |-> TRUE,
              title |-> SubSeq(content, p + Len(HEADING), nl - 1),
              code |-> SubSeq(content, codeStart, close - 1),
              lastIndex |-> close + Len(FENCE)]
        ELSE NoMatch

RECURSIVE ExecAll(_, _)
\* while ((match = regex.exec(content)) !== null): the matches from lastIndex on.
ExecAll(content, lastIndex) ==
    LET starts == {p \in lastIndex..Len(content) : MatchAt(content, p).ok}
    IN  IF starts = {} THEN <<>>
        ELSE LET p == CHOOSE q \in starts : \A r \in starts : q <= r
                 match == MatchAt(content, p)
             IN  <<match>> \o ExecAll(content, match.lastIndex)

\* _sanitizeTitle(title)
sanitizeTitle(title) == IF title = <<>> THEN <<>> ELSE sanitizeInput(Trim(title))

\* _sanitizeCode(code): the WHITESPACE_CLEANER replace.
sanitizeCode(code) == IF code = <<>> THEN <<>> ELSE Trim(code)

Snippet(title, code) == [title |-> title, code |-> code]

\* The loop body: a snippet is pushed when title && code.
SnippetsOf(matches) ==
    LET made == [i \in 1..Len(matches) |->
                    Snippet(sanitizeTitle(matches[i].title), sanitizeCode(matches[i].code))]
    IN  SelectSeq(made, LAMBDA sn : sn.title # <<>> /\ sn.code # <<>>)

Parsed(snippets) == [threw |-> FALSE, snippets |-> snippets]
ParseThrew == [threw |-> TRUE, snippets |-> <<>>]

\* A parse that returns an empty list where no entry is found.
parseExamplesLenient(content) ==
    IF content = <<>> THEN ParseThrew
    ELSE Parsed(SnippetsOf(ExecAll(content, 1)))

\* _parseExamples(content)
parseExamples(content) ==
    IF content = <<>> THEN ParseThrew                     \* INVALID_CONTENT
    ELSE LET snippets == SnippetsOf(ExecAll(content, 1))
         IN  IF snippets = <<>> THEN ParseThrew            \* NO_EXAMPLES
             ELSE Parsed(snippets)

\* What a fetch() came to: it rejected, or resolved with a response of this
\* ok flag, content-length header (0 when the header is absent) and body; its
\* statusText is empty unless the server sent one.
Response(rejected, ok, contentLength, body) ==
    [rejected |-> rejected, ok |-> ok, contentLength |-> contentLength, body |-> body,
     statusText |-> <<>>]

\* The response with the status text the server sent.
WithStatusText(response, statusText) == [response EXCEPT !.statusText = statusText]

\* Pieces of the error messages, each kept whole: none of them holds one of
\* the characters < > & " ' /.
FETCH_FAILED == <<"Failed to fetch examples file">>
NO_EXAMPLES == <<"No examples found in the file">>
INVALID_CONTENT == <<"Invalid examples file content">>
LOAD_FILE_TOO_LARGE == <<"Examples file is too large">>
\* The message of the TypeError a rejected fetch() carries.
FAILED_TO_FETCH == <<"Failed to fetch">>
\* 'HTTP ' and response.status
HTTP_STATUS == <<"HTTP 404">>
COLON == <<":", " ">>

\* error.message in the catch block of _fetchExamplesFile.
FetchErrorMessage(response) ==
    IF response.rejected THEN FAILED_TO_FETCH
    ELSE IF ~response.ok THEN HTTP_STATUS \o COLON \o response.statusText
    ELSE LOAD_FILE_TOO_LARGE

\* The message of the error _fetchExamplesFile throws after its last attempt.
FetchFailedMessage(response) == FETCH_FAILED \o COLON \o FetchErrorMessage(response)

\* The message of the error _parseExamples throws.
ParseErrorMessage(content) == IF content = <<>> THEN INVALID_CONTENT ELSE NO_EXAMPLES

\* <p>${sanitizeInput(error.message)}</p> of the error markup.
ErrorText(message) == sanitizeInput(message)

\* The try block of _fetchExamplesFile: the content, or a throw.
FetchedContent(response, limit) ==
    IF response.rejected \/ ~response.ok THEN Threw
    ELSE IF response.contentLength # 0 /\ response.contentLength > limit THEN Threw
    ELSE IF Len(response.body) > limit THEN Threw
    ELSE Returned(response.body)

\* A retry test that allows one attempt more.
MayRetryOnceMore(n, limit) == n <= limit

\* attempt < this.config.retryAttempts
MayRetry(n, limit) == n < limit

\* A markup that holds each code as the catalogue wrote it.
ExamplesHtmlRaw(snippets) == [kind |-> "examples", snippets |-> snippets]

\* The value loadExamples() resolves with: the examples' markup (each code
\* escaped for display) or the error markup.
ExamplesHtml(snippets) ==
    [kind |-> "examples",
     snippets |-> [i \in 1..Len(snippets) |->
                      Snippet(snippets[i].title, sanitizeInput(snippets[i].code))]]
ErrorHtml == [kind |-> "error", snippets |-> <<>>]
NoHtml == [kind |-> "none", snippets |-> <<>>]

\* A catalogue entry as the examples file writes it.
Entry(title, code) == HEADING \o title \o OPENING \o code \o FENCE

\* Response bodies: two entries; one entry; an entry whose fence is never
\* closed; an entry with a blank title before one whose title and code need
\* trimming and escaping; an entry whose title and code hold the characters
\* that markup is made of.
CatalogueBodies ==
    { Entry(<<"A">>, <<"x", "\n">>) \o NL \o Entry(<<"B">>, <<"y", "\n">>),
      Entry(<<"C">>, <<"z">>),
      HEADING \o <<"A">> \o OPENING \o <<"x">>,
      Entry(<<" ">>, <<"x">>) \o Entry(<<"<", " ">>, <<" ", "y", "\n">>),
      Entry(<<"'", "/", ">">>, <<"<", "&", "\"">>) }

FetchOutcomes ==
    {Response(TRUE, FALSE, 0, <<>>)}
    \cup {Response(FALSE, FALSE, 0, <<"4", "0", "4">>)}
    \cup {WithStatusText(Response(FALSE, FALSE, 0, <<>>), <<"<", "'", "/">>)}
    \cup {Response(FALSE, TRUE, LOAD_MAX_FILE_SIZE + 1, Entry(<<"C">>, <<"z">>))}
    \cup {Response(FALSE, TRUE, 0, <<>>)}
    \cup {Response(FALSE, TRUE, contentLength, body) :
            contentLength \in {0, 1}, body \in CatalogueBodies}

\* options.retryAttempts of the constructor, 0 for an option left out.
RetryAttemptsOptions == {0, 1, 2}

InitLoadVars(options) ==
    /\ \E option \in options :
          retryAttempts = IF option = 0 THEN RETRY_ATTEMPTS ELSE option
    /\ loadPhase = "idle"
    /\ attempt = 0
    /\ fetches = 0
    /\ responses = <<>>
    /\ examples = <<>>
    /\ isLoaded = FALSE
    /\ loadReturn = NoHtml
    /\ loadErrorText = <<>>

\* loadExamples() is called and _fetchExamplesFile() makes its first fetch.
LoadExamples ==
    /\ loadPhase \in {"idle", "returned"}
    /\ loadPhase' = "fetching"
    /\ attempt' = 1
    /\ fetches' = 1
    /\ responses' = <<>>
    /\ UNCHANGED <<retryAttempts, examples, isLoaded, loadReturn, loadErrorText>>

\* reloadExamples()
ReloadExamples ==
    /\ loadPhase \in {"idle", "returned"}
    /\ isLoaded' = FALSE
    /\ examples' = <<>>
    /\ loadPhase' = "fetching"
    /\ attempt' = 1
    /\ fetches' = 1
    /\ responses' = <<>>
    /\ UNCHANGED <<retryAttempts, loadReturn, loadErrorText>>

\* The fetch of the running attempt settles, and the code runs up to its
\* next await or to the return of loadExamples().
FetchSettled(response) ==
    LET content == FetchedContent(response, LOAD_MAX_FILE_SIZE)
        parsed  == parseExamples(content.value)
    IN  /\ loadPhase = "fetching"
        /\ responses' = Append(responses, response)
        /\ IF content.threw
           THEN IF MayRetry(attempt, retryAttempts)
                THEN /\ loadPhase' = "delaying"
                     /\ UNCHANGED <<examples, isLoaded, loadReturn, loadErrorText>>
                ELSE /\ loadPhase' = "returned"                \* FETCH_FAILED
                     /\ loadReturn' = ErrorHtml
                     /\ loadErrorText' = ErrorText(FetchFailedMessage(response))
                     /\ UNCHANGED <<examples, isLoaded>>
           ELSE IF parsed.threw
                THEN /\ loadPhase' = "returned"
                     /\ loadReturn' = ErrorHtml
                     /\ loadErrorText' = ErrorText(ParseErrorMessage(content.value))
                     /\ UNCHANGED <<examples, isLoaded>>
                ELSE /\ loadPhase' = "returned"
                     /\ examples' = parsed.snippets
                     /\ isLoaded' = TRUE
                     /\ loadReturn' = ExamplesHtml(parsed.snippets)
                     /\ loadErrorText' = <<>>
        /\ UNCHANGED <<retryAttempts, attempt, fetches>>

\* The _delay of a failed attempt is over: _fetchExamplesFile(attempt + 1).
DelayElapsed ==
    /\ loadPhase = "delaying"
    /\ loadPhase' = "fetching"
    /\ attempt' = attempt + 1
    /\ fetches' = fetches + 1
    /\ UNCHANGED <<retryAttempts, responses, examples, isLoaded, loadReturn, loadErrorText>>


(***************************************************************************)
(* sanitizer.js over JavaScript values: input validation, and              *)
(* validateAndSanitizeInput                                                *)
(***************************************************************************)

\* A JavaScript value by its type; text is the string's characters.
JsValue(type, text) == [type |-> type, text |-> text]
JsString(text) == JsValue("string", text)
JsNull == JsValue("null", <<>>)
JsUndefined == JsValue("undefined", <<>>)
\* The number 123.
JsNumber == JsValue("number", <<>>)

\* A call returns a text or throws an error of a class.
Ok(text) == [error |-> "none", value |-> text]
Raise(error) == [error |-> error, value |-> <<>>]

\* A validation that takes null for a string.
InputErrorNullAsText(input) ==
    IF input.type \in {"string", "null"} THEN "none" ELSE "TypeError"

\* The validation at the head of each function: Error for null and
\* undefined, TypeError for every other non-string.
InputError(input) ==
    IF input.type \in {"null", "undefined"} THEN "Error"
    ELSE IF input.type # "string" THEN "TypeError"
    ELSE "none"

\* sanitizeInput(input) for any value.
sanitizeInputOf(input) ==
    IF InputError(input) # "none" THEN Raise(InputError(input))
    ELSE Ok(sanitizeInput(input.text))

\* sanitizeMermaidInput(input) for any value.
sanitizeMermaidInputOf(input) ==
    IF InputError(input) # "none" THEN Raise(InputError(input))
    ELSE Ok(sanitizeMermaidInput(input.text))

DEFAULT_MAX_LENGTH == 10000

\* An option left out of the options object.
Absent == -1

\* const { maxLength = 10000, allowEmpty = true } = options
Options(maxLength, allowEmpty) == [maxLength |-> maxLength, allowEmpty |-> allowEmpty]
EffectiveMaxLength(options) ==
    IF options.maxLength = Absent THEN DEFAULT_MAX_LENGTH ELSE options.maxLength

\* A RegExp object of a literal source: its global flag and its lastIndex.
RegExp(source, global, lastIndex) ==
    [source |-> source, global |-> global, lastIndex |-> lastIndex]

\* pattern.test(text): whether the source occurs, searched from lastIndex
\* when the pattern is global, and the pattern's lastIndex afterwards.
RegExpTest(pattern, text) ==
    LET from  == IF pattern.global THEN pattern.lastIndex ELSE 0
        found == IF from > Len(text) THEN 0 ELSE IndexFrom(text, from + 1, pattern.source)
    IN  [matched |-> found # 0,
         pattern |-> IF ~pattern.global THEN pattern
                     ELSE [pattern EXCEPT !.lastIndex =
                              IF found = 0 THEN 0 ELSE found - 1 + Len(pattern.source)]]

RECURSIVE TestPatterns(_, _)
\* for (const pattern of blacklistPatterns) if (pattern.test(input)) throw:
\* the patterns are tested in order up to the first that matches.
TestPatterns(patterns, text) ==
    IF patterns = <<>> THEN [matched |-> FALSE, patterns |-> <<>>]
    ELSE LET t == RegExpTest(Head(patterns), text)
         IN  IF t.matched
             THEN [matched |-> TRUE, patterns |-> <<t.pattern>> \o Tail(patterns)]
             ELSE LET rest == TestPatterns(Tail(patterns), text)
                  IN  [rest EXCEPT !.patterns = <<t.pattern>> \o @]

\* validateAndSanitizeInput(input, options): the result, and the caller's
\* pattern objects after the call.
validateAndSanitizeInput(input, options, patterns) ==
    IF InputError(input) # "none"
    THEN [result |-> Raise(InputError(input)), patterns |-> patterns]
    ELSE IF ~options.allowEmpty /\ Trim(input.text) = <<>>
    THEN [result |-> Raise("Error"), patterns |-> patterns]
    ELSE IF Len(input.text) > EffectiveMaxLength(options)
    THEN [result |-> Raise("Error"), patterns |-> patterns]
    ELSE LET tested == TestPatterns(patterns, input.text)
         IN  [result |-> IF tested.matched THEN Raise("Error")
                         ELSE Ok(sanitizeInput(input.text)),
              patterns |-> tested.patterns]

\* The longest text of the bounded inputs.
MaxSanLen == 3

SanAlphabet == {"<", ">", "&", "\"", "'", "/", "a", " "}

SCRIPT == <<"s", "c", "r", "i", "p", "t">>
ALERT == <<"a", "l", "e", "r", "t">>
\* '<script>alert("xss")</script>', the input of the basic escaping test.
XssExample ==
    <<"<">> \o SCRIPT \o <<">">> \o ALERT \o <<"(", "\"", "x", "s", "s", "\"", ")">>
        \o <<"<", "/">> \o SCRIPT \o <<">">>

SanInputs ==
    {JsNull, JsUndefined, JsNumber, JsString(XssExample)}
    \cup {JsString(text) : text \in TextsUpTo(SanAlphabet, MaxSanLen)}

\* Pattern lists a caller holds: none, /</, /</g, and /a/g before /</.
PatternLists ==
    { <<>>,
      <<RegExp(<<"<">>, FALSE, 0)>>,
      <<RegExp(<<"<">>, TRUE, 0)>>,
      <<RegExp(<<"a">>, TRUE, 0), RegExp(<<"<">>, FALSE, 0)>> }

MaxLengthOptions == {Absent, 2}

NoOptions == Options(Absent, TRUE)

InitSanVars(inputs, patternLists) ==
    /\ sanIn \in inputs
    /\ sanFn = "none"
    /\ sanOptions = NoOptions
    /\ sanOut = Ok(<<>>)
    /\ blacklistPatterns \in patternLists

SanitizeInputCalled ==
    /\ sanFn' = "sanitizeInput"
    /\ sanOut' = sanitizeInputOf(sanIn)
    /\ sanOptions' = NoOptions
    /\ UNCHANGED <<sanIn, blacklistPatterns>>

SanitizeMermaidInputCalled ==
    /\ sanFn' = "sanitizeMermaidInput"
    /\ sanOut' = sanitizeMermaidInputOf(sanIn)
    /\ sanOptions' = NoOptions
    /\ UNCHANGED <<sanIn, blacklistPatterns>>

\* validateAndSanitizeInput(sanIn, { maxLength, allowEmpty, blacklistPatterns })
ValidateAndSanitizeInputCalled(maxLength, allowEmpty) ==
    LET r == validateAndSanitizeInput(sanIn, Options(maxLength, allowEmpty), blacklistPatterns)
    IN  /\ sanFn' = "validateAndSanitizeInput"
        /\ sanOptions' = Options(maxLength, allowEmpty)
        /\ sanOut' = r.result
        /\ blacklistPatterns' = r.patterns
        /\ UNCHANGED sanIn


(***************************************************************************)
(* The App's start-up: _initialize, its retries, and destroy (app.js)      *)
(***************************************************************************)

\* App.CONFIG.MAX_INIT_RETRIES
MAX_INIT_RETRIES == 3

\* What the document may lack when the App is constructed: one of the
\* elements of App.REQUIRED_ELEMENTS, the #infoBtn the Editor requires,
\* window.mermaid, or the export buttons the ExportManager requires.
Lacks == {"required", "infoBtn", "mermaid", "exportButtons"}

\* The keys of App.components after a complete _initializeComponents.
ComponentNames == {"editor", "renderer", "exportManager", "themeManager"}

\* App._validateDOMReadiness: it throws when a required element is missing.
validateDOMReadiness(lacking) == "required" \notin lacking

\* App._initializeComponents: the constructors that return, in order, before
\* the first one that throws.  The Editor throws without #infoBtn, the
\* Renderer without window.mermaid, the ExportManager without its buttons.
ComponentsBuilt(lacking) ==
    IF "infoBtn" \in lacking THEN {}
    ELSE IF "mermaid" \in lacking THEN {"editor"}
    ELSE IF "exportButtons" \in lacking THEN {"editor", "renderer"}
    ELSE ComponentNames

\* The test of _handleInitializationError, with <= for <.
ShouldRetryInclusive(count) == count <= MAX_INIT_RETRIES

\* The test of _handleInitializationError on the incremented count.
ShouldRetry(count) == count < MAX_INIT_RETRIES

\* The state once `new App()` has returned: _initialize has run
\* _validateDOMReadiness and is suspended at its first await.
InitBootVars(lackings) ==
    /\ missing \in lackings
    /\ domValid = validateDOMReadiness(missing)
    /\ initPhase = "validated"
    /\ initAttempts = 1
    /\ initRetryCount = 0
    /\ isInitialized = FALSE
    /\ components = {}
    /\ onErrorCalls = 0
    /\ clickHandlers = 0
    /\ updateListeners = 0
    /\ submitted = 0
    /\ destroyed = FALSE

\* App._handleInitializationError
HandleInitializationError ==
    /\ initRetryCount' = initRetryCount + 1
    /\ IF ShouldRetry(initRetryCount')
       THEN initPhase' = "retry" /\ UNCHANGED onErrorCalls
       ELSE initPhase' = "failed" /\ onErrorCalls' = onErrorCalls + 1

\* _initialize resumes after its first await: the catch block when the
\* validation threw; otherwise _initializeComponents, then either the catch
\* block or _loadInitialContent, which sets the editor's content and starts
\* the timer of _triggerInitialRender.
InitializeResumes ==
    /\ initPhase = "validated"
    /\ IF ~domValid
       THEN /\ HandleInitializationError
            /\ UNCHANGED <<components, clickHandlers, updateListeners>>
       ELSE /\ components' = components \cup ComponentsBuilt(missing)
            /\ clickHandlers' = clickHandlers
                  + (IF "editor" \in ComponentsBuilt(missing) THEN 1 ELSE 0)
            /\ updateListeners' = updateListeners
                  + (IF "renderer" \in ComponentsBuilt(missing) THEN 1 ELSE 0)
            /\ IF ComponentsBuilt(missing) = ComponentNames
               THEN initPhase' = "rendering" /\ UNCHANGED <<initRetryCount, onErrorCalls>>
               ELSE HandleInitializationError
    /\ UNCHANGED <<missing, domValid, initAttempts, isInitialized, submitted,
                   destroyed, windowApp>>

\* A click on #renderBtn with text in the editor: every click handler
\* dispatches one 'diagram-update', and every listener of the event submits
\* one render.
RendersPerClick == clickHandlers * updateListeners

\* The timer of _triggerInitialRender fires: the button is clicked, the
\* promise resolves, and _initialize runs to its end.
InitialRenderTimer ==
    /\ initPhase = "rendering"
    /\ submitted' = RendersPerClick
    /\ windowApp' = TRUE
    /\ isInitialized' = TRUE
    /\ initPhase' = "done"
    /\ UNCHANGED <<missing, domValid, initAttempts, initRetryCount, components,
                   onErrorCalls, clickHandlers, updateListeners, destroyed>>

\* The retry timer of _handleInitializationError fires: _initialize is
\* called again and suspends after _validateDOMReadiness.
RetryTimer ==
    /\ initPhase = "retry"
    /\ initAttempts' = initAttempts + 1
    /\ domValid' = validateDOMReadiness(missing)
    /\ initPhase' = "validated"
    /\ UNCHANGED <<missing, initRetryCount, isInitialized, components, onErrorCalls,
                   clickHandlers, updateListeners, submitted, destroyed, windowApp>>

\* App.destroy(): the ExportManager and the ThemeManager remove their own
\* listeners; the Editor and the Renderer have no destroy method.  No timer
\* is cleared and a suspended _initialize is not told.
Destroy ==
    /\ components' = {}
    /\ windowApp' = FALSE
    /\ isInitialized' = FALSE
    /\ destroyed' = TRUE
    /\ UNCHANGED <<missing, domValid, initPhase, initAttempts, initRetryCount,
                   onErrorCalls, clickHandlers, updateListeners, submitted>>

\* The user clicks #renderBtn once the editor holds the initial example.
UserClick ==
    /\ initPhase \in {"rendering", "done"}
    /\ submitted' = RendersPerClick
    /\ UNCHANGED <<missing, domValid, initPhase, initAttempts, initRetryCount,
                   isInitialized, components, onErrorCalls, clickHandlers,
                   updateListeners, destroyed, windowApp>>

\* Something the document lacked arrives: an element is added, or the
\* script that defines window.mermaid finishes loading.
Arrives(thing) ==
    /\ thing \in missing
    /\ missing' = missing \ {thing}
    /\ UNCHANGED <<domValid, initPhase, initAttempts, initRetryCount, isInitialized,
                   components, onErrorCalls, clickHandlers, updateListeners,
                   submitted, destroyed, windowApp>>

(***************************************************************************)
(* Specifications                                                          *)
(***************************************************************************)

vars == <<varsEsc, varsSvg, varsApp, varsMore>>

\* The variables of a part that a specification does not exercise.
IdleEscVars == escIn = <<>> /\ escFn = "none" /\ escOut = <<>>
IdleSvgVars ==
    /\ svgIn = <<>>
    /\ svgStage = 0
    /\ svgOut1 = Returned(<<>>)
    /\ svgOut2 = Returned(<<>>)
IdleAppVars == InitApp({NoItem}, {FALSE})
IdleExpVars == InitExpVars({TRUE}, {0})
IdleLoadVars == InitLoadVars({0})
IdleObsVars == latestAt = 0 /\ latestOutcome = "none"
IdleSanVars == InitSanVars({JsString(<<>>)}, {<<>>})
IdlePanVars == InitPanVars
IdleBootVars == InitBootVars({{}})
IdleDocVars == inputPresent = TRUE
IdleRestVars == IdlePanVars /\ IdleBootVars /\ IdleDocVars
IdleMoreVars == IdleExpVars /\ IdleLoadVars /\ IdleObsVars /\ IdleSanVars /\ IdleRestVars

InitEscape == InitEscVars /\ IdleSvgVars /\ IdleAppVars /\ IdleMoreVars

NextEscape ==
    \/ CallSanitizeMermaidInput /\ UNCHANGED <<varsSvg, varsApp, varsMore>>
    \/ CallRendererSanitizeInput /\ UNCHANGED <<varsSvg, varsApp, varsMore>>

InitExport == InitSvgVars /\ IdleEscVars /\ IdleAppVars /\ IdleMoreVars

NextExport ==
    \/ SanitizeExport /\ UNCHANGED <<varsEsc, varsApp, varsMore>>
    \/ SanitizeExportAgain /\ UNCHANGED <<varsEsc, varsApp, varsMore>>

\* Zoom and pan around renders, on one theme.
InitView == IdleEscVars /\ IdleSvgVars /\ IdleMoreVars /\ InitApp({NoItem}, BOOLEAN)

NextView ==
    \/ ZoomIn /\ UNCHANGED varsAside
    \/ ZoomOut /\ UNCHANGED varsAside
    \/ \E delta \in ZoomDeltas : Zoom(delta) /\ UNCHANGED varsAside
    \/ \E deltaY \in {-1, 1} : WheelZoom(deltaY) /\ UNCHANGED varsAside
    \/ ResetZoom /\ UNCHANGED varsAside
    \/ TogglePan /\ UNCHANGED varsAside
    \/ \E mobile \in BOOLEAN : Resize(mobile) /\ UNCHANGED varsAside
    \/ ScrollIndicatorTimeout /\ UNCHANGED varsAside
    \/ \E content \in EditorTexts : DiagramUpdate(content) /\ UNCHANGED varsAside
    \/ \E i \in 1..Len(pending) : RenderSucceeded(i) /\ UNCHANGED varsAside
    \/ \E i \in 1..Len(pending), nodeLeft \in BOOLEAN :
          RenderFailed(i, nodeLeft) /\ UNCHANGED varsAside

\* Themes, the editor and renders, on a wide window (SpecView has the narrow one).
Init == IdleEscVars /\ IdleSvgVars /\ IdleMoreVars /\ InitApp(StoredValues, {FALSE})

Next ==
    \/ \E content \in EditorTexts : SetContent(content) /\ UNCHANGED varsAside
    \/ Tick /\ UNCHANGED varsAside
    \/ RenderButtonClick /\ UNCHANGED varsAside
    \/ \E content \in EditorTexts : DiagramUpdate(content) /\ UNCHANGED varsAside
    \/ \E i \in 1..Len(pending) : RenderSucceeded(i) /\ UNCHANGED varsAside
    \/ \E i \in 1..Len(pending), nodeLeft \in BOOLEAN :
          RenderFailed(i, nodeLeft) /\ UNCHANGED varsAside
    \/ \E themeKey \in ThemeKeyInputs : \E fault \in FaultsFor(themeKey) :
          SwitchTheme(themeKey, fault) /\ UNCHANGED varsAside
    \/ SetupGlobalAccess /\ UNCHANGED varsAside
    \/ \E getItemThrows \in BOOLEAN :
          Reload(getItemThrows, FALSE) /\ UNCHANGED varsAside

\* Exports around renders.
InitDownload ==
    /\ IdleEscVars /\ IdleRestVars /\ IdleSvgVars /\ InitApp({NoItem}, {FALSE})
    /\ InitExpVars(BOOLEAN, MaxFileSizeOptions) /\ IdleLoadVars /\ IdleObsVars /\ IdleSanVars

NextDownload ==
    \/ \E content \in EditorTexts : DiagramUpdate(content) /\ UNCHANGED varsAside
    \/ \E i \in 1..Len(pending) : RenderSucceeded(i) /\ UNCHANGED varsAside
    \/ \E i \in 1..Len(pending), nodeLeft \in BOOLEAN :
          RenderFailed(i, nodeLeft) /\ UNCHANGED varsAside
    \/ \E rawSvgContent \in RawSvgContents, createObjectURLThrows \in BOOLEAN :
          ExportSVG(rawSvgContent, createObjectURLThrows)
             /\ UNCHANGED <<varsEsc, varsSvg, varsRest, varsLoad, varsObs, varsSan>>
    \/ \E canvas \in CanvasOutcomes, size \in PngBlobSizes, createObjectURLThrows \in BOOLEAN :
          ExportPNG(canvas, size, createObjectURLThrows)
             /\ UNCHANGED <<varsEsc, varsSvg, varsRest, varsLoad, varsObs, varsSan>>

SpecDownload == InitDownload /\ [][NextDownload]_vars

\* The most recent submission is the last of pending; a blank call leaves
\* nothing in flight of its own.
ObserveCall ==
    IF pending' # pending
    THEN latestAt' = Len(pending') /\ latestOutcome' = "in flight"
    ELSE latestAt' = 0 /\ latestOutcome' = "prompt"

\* The i-th call in flight settles with this outcome.
ObserveSettled(i, outcome) ==
    IF i = latestAt
    THEN latestAt' = 0 /\ latestOutcome' = outcome
    ELSE /\ latestAt' = IF latestAt > i THEN latestAt - 1 ELSE latestAt
         /\ UNCHANGED latestOutcome

\* Renders that overlap, on one theme, with the clock.
InitRender ==
    /\ IdleEscVars /\ IdleRestVars /\ IdleSvgVars /\ IdleExpVars /\ IdleLoadVars /\ IdleObsVars /\ IdleSanVars
    /\ InitApp({NoItem}, {FALSE})

NextRender ==
    \/ Tick /\ UNCHANGED varsAside
    \/ \E content \in RenderTexts :
          /\ DiagramUpdateWithin(content, MaxInFlight)
          /\ ObserveCall
          /\ UNCHANGED <<varsEsc, varsSvg, varsRest, varsExp, varsLoad, varsSan>>
    \/ \E i \in 1..Len(pending) :
          /\ RenderSucceeded(i)
          /\ ObserveSettled(i, "succeeded")
          /\ UNCHANGED <<varsEsc, varsSvg, varsRest, varsExp, varsLoad, varsSan>>
    \/ \E i \in 1..Len(pending), nodeLeft \in BOOLEAN :
          /\ RenderFailed(i, nodeLeft)
          /\ ObserveSettled(i, "failed")
          /\ UNCHANGED <<varsEsc, varsSvg, varsRest, varsExp, varsLoad, varsSan>>

SpecRender == InitRender /\ [][NextRender]_vars

\* The sanitizer functions called, any number of times, on one value.
InitSanitize ==
    /\ IdleEscVars /\ IdleRestVars /\ IdleSvgVars /\ IdleAppVars /\ IdleExpVars /\ IdleLoadVars /\ IdleObsVars
    /\ InitSanVars(SanInputs, PatternLists)

NextSanitize ==
    \/ SanitizeInputCalled
          /\ UNCHANGED <<varsEsc, varsSvg, varsRest, varsApp, varsExp, varsLoad, varsObs>>
    \/ SanitizeMermaidInputCalled
          /\ UNCHANGED <<varsEsc, varsSvg, varsRest, varsApp, varsExp, varsLoad, varsObs>>
    \/ \E maxLength \in MaxLengthOptions, allowEmpty \in BOOLEAN :
          ValidateAndSanitizeInputCalled(maxLength, allowEmpty)
             /\ UNCHANGED <<varsEsc, varsSvg, varsRest, varsApp, varsExp, varsLoad, varsObs>>

SpecSanitize == InitSanitize /\ [][NextSanitize]_vars

\* Catalogue loads, one at a time.
InitLoad ==
    /\ IdleEscVars /\ IdleRestVars /\ IdleSvgVars /\ IdleAppVars /\ IdleExpVars /\ IdleObsVars /\ IdleSanVars
    /\ InitLoadVars(RetryAttemptsOptions)

NextLoad ==
    \/ LoadExamples /\ UNCHANGED <<varsEsc, varsSvg, varsRest, varsApp, varsExp, varsObs, varsSan>>
    \/ ReloadExamples /\ UNCHANGED <<varsEsc, varsSvg, varsRest, varsApp, varsExp, varsObs, varsSan>>
    \/ \E response \in FetchOutcomes :
          FetchSettled(response) /\ UNCHANGED <<varsEsc, varsSvg, varsRest, varsApp, varsExp, varsObs, varsSan>>
    \/ DelayElapsed /\ UNCHANGED <<varsEsc, varsSvg, varsRest, varsApp, varsExp, varsObs, varsSan>>

SpecLoad == InitLoad /\ [][NextLoad]_vars

\* Drags of the diagram, with renders and the pan gate around them.
InitPan ==
    /\ IdleEscVars /\ IdleSvgVars
    /\ IdleExpVars /\ IdleLoadVars /\ IdleObsVars /\ IdleSanVars /\ IdleBootVars
    /\ IdleDocVars
    /\ InitPanVars
    /\ InitApp({NoItem}, {FALSE})

NextPan ==
    \/ DiagramUpdateWithin(<<"a">>, 1) /\ UNCHANGED varsAside
    \/ \E i \in 1..Len(pending) :
          /\ RenderSucceeded(i)
          /\ SetupZoomAndPan
          /\ UNCHANGED <<varsEsc, varsSvg, varsBoot, varsDoc, varsExp, varsLoad, varsObs, varsSan>>
    \/ TogglePan /\ UNCHANGED varsAside
    \/ ResetZoom /\ UNCHANGED varsAside
    \/ \E x \in Coords, y \in Coords :
          MouseDown(x, y) /\ UNCHANGED <<varsEsc, varsSvg, varsBoot, varsDoc, varsExp, varsLoad, varsObs, varsSan>>
    \/ \E x \in Coords, y \in Coords :
          MouseMove(x, y) /\ UNCHANGED <<varsEsc, varsSvg, varsBoot, varsDoc, varsExp, varsLoad, varsObs, varsSan>>
    \/ MouseUp /\ UNCHANGED <<varsEsc, varsSvg, varsBoot, varsDoc, varsExp, varsLoad, varsObs, varsSan>>
    \/ \E touches \in TouchCounts, x \in Coords, y \in Coords :
          TouchStart(touches, x, y)
             /\ UNCHANGED <<varsEsc, varsSvg, varsBoot, varsDoc, varsExp, varsLoad, varsObs, varsSan>>
    \/ \E touches \in TouchCounts, x \in Coords, y \in Coords :
          TouchMove(touches, x, y)
             /\ UNCHANGED <<varsEsc, varsSvg, varsBoot, varsDoc, varsExp, varsLoad, varsObs, varsSan>>
    \/ TouchEnd /\ UNCHANGED <<varsEsc, varsSvg, varsBoot, varsDoc, varsExp, varsLoad, varsObs, varsSan>>

SpecPan == InitPan /\ [][NextPan]_vars

\* The App's start-up on a document that may lack something, with destroy().
StartupStill ==
    UNCHANGED <<varsEsc, varsSvg, varsAppStill, varsExp, varsLoad, varsObs, varsSan,
                varsPan, varsDoc>>

InitStartup ==
    /\ IdleEscVars /\ IdleSvgVars /\ IdleAppVars
    /\ IdleExpVars /\ IdleLoadVars /\ IdleObsVars /\ IdleSanVars /\ IdlePanVars
    /\ IdleDocVars
    /\ InitBootVars(SUBSET Lacks)

NextStartup ==
    \/ InitializeResumes /\ StartupStill
    \/ InitialRenderTimer /\ StartupStill
    \/ RetryTimer /\ StartupStill
    \/ Destroy /\ StartupStill
    \/ UserClick /\ StartupStill
    \/ \E thing \in Lacks : Arrives(thing) /\ StartupStill

\* Microtasks run and timers fire.
SpecStartup ==
    /\ InitStartup /\ [][NextStartup]_vars
    /\ WF_vars(InitializeResumes /\ StartupStill)
    /\ WF_vars(RetryTimer /\ StartupStill)
    /\ WF_vars(InitialRenderTimer /\ StartupStill)

\* Theme switches, with renders, on a document that may lose its textarea.
SwitchStill ==
    UNCHANGED <<varsEsc, varsSvg, varsExp, varsLoad, varsObs, varsSan, varsPan, varsBoot>>

InitSwitch ==
    /\ IdleEscVars /\ IdleSvgVars
    /\ IdleExpVars /\ IdleLoadVars /\ IdleObsVars /\ IdleSanVars
    /\ IdlePanVars /\ IdleBootVars
    /\ inputPresent = TRUE
    /\ InitApp(StoredValues, {FALSE})

NextSwitch ==
    \/ \E content \in EditorTexts :
          inputPresent /\ SetContent(content) /\ SwitchStill /\ UNCHANGED inputPresent
    \/ InputRemoved /\ SwitchStill
    \/ \E themeKey \in ThemeKeyInputs : \E fault \in FaultsFor(themeKey) :
          SwitchTheme(themeKey, fault) /\ SwitchStill /\ UNCHANGED inputPresent
    \/ \E i \in 1..Len(pending) :
          RenderSucceeded(i) /\ SwitchStill /\ UNCHANGED inputPresent
    \/ SetupGlobalAccess /\ SwitchStill /\ UNCHANGED inputPresent

SpecSwitch == InitSwitch /\ [][NextSwitch]_vars

SpecExport == InitExport /\ [][NextExport]_vars

SpecEscape == InitEscape /\ [][NextEscape]_vars

SpecView == InitView /\ [][NextView]_vars

Spec == Init /\ [][Next]_vars


(***************************************************************************)
(* Claims about the diagram-source escape                                  *)
(***************************************************************************)

\* What the contract says a character becomes.
ContractImage(c) ==
    CASE c = "<" -> LT [] c = "&" -> AMP [] c = "\"" -> QUOT [] OTHER -> <<c>>

\* Where the image of the i-th input character starts in the output.
RECURSIVE ImageStart(_, _)
ImageStart(s, i) ==
    IF i = 1 THEN 1 ELSE ImageStart(s, i - 1) + Len(ContractImage(s[i - 1]))

C2_AmpersandPreserved ==
    (escFn = "sanitizeMermaidInput" /\ "&" \in Range(escIn) /\ "<" \notin Range(escIn))
        => escOut = escIn


(***************************************************************************)
(* Claims about the export sanitizer                                       *)
(***************************************************************************)

ForbiddenKinds == {"script", "object", "embed", "iframe", "form", "input"}

EventHandlerOrScriptUrl(a) ==
    \/ StartsWith(a.name, <<"o", "n">>)
    \/ Includes(ToLowerCase(a.value), JAVASCRIPT)

RECURSIVE ElementListing(_, _)
\* The elements of a markup text in document order, each with the tags of its
\* ancestors, read off the text's tags.
ElementListing(t, ancestors) ==
    IF t = <<>> THEN <<>>
    ELSE LET x == Head(t)
             entry == [path |-> ancestors, tag |-> x.tag, attrs |-> DomAttrs(x.attrs)]
         IN  CASE x.k = "start" ->
                    <<entry>> \o ElementListing(Tail(t), Append(ancestors, x.tag))
               [] x.k = "empty" -> <<entry>> \o ElementListing(Tail(t), ancestors)
               [] x.k = "end" ->
                    ElementListing(Tail(t), SubSeq(ancestors, 1, Len(ancestors) - 1))

WithoutDangerousAttrs(listing) ==
    [i \in 1..Len(listing) |->
        [listing[i] EXCEPT !.attrs = SelectSeq(@, LAMBDA a : ~EventHandlerOrScriptUrl(a))]]

TagsAndAttrs(listing) ==
    [i \in 1..Len(listing) |-> [tag |-> listing[i].tag, attrs |-> listing[i].attrs]]

\* No forbidden element and no dangerous attribute is left in the output.
ExportOutputClean ==
    \A i \in 1..Len(svgOut1.value) :
        /\ svgOut1.value[i].tag \notin ForbiddenKinds
        /\ \A j \in 1..Len(svgOut1.value[i].attrs) :
              ~EventHandlerOrScriptUrl(svgOut1.value[i].attrs[j])

\* C3 as stated: the returned markup holds no script, object, embed, iframe,
\* form or input element at any depth and no attribute whose name begins with
\* 'on' or whose value contains 'javascript:' in any letter case, and all
\* other elements and attributes are kept.
C3_AllOtherElementsKept ==
    (svgStage >= 1 /\ ~svgOut1.threw) =>
        /\ ExportOutputClean
        /\ TagsAndAttrs(ElementListing(svgOut1.value, <<>>)) =
              TagsAndAttrs(WithoutDangerousAttrs(
                  SelectSeq(ElementListing(svgIn, <<>>),
                            LAMBDA e : e.tag \notin ForbiddenKinds)))

\* C3 amended: the returned markup holds no forbidden element and no dangerous
\* attribute; every other element that is not inside a forbidden element is
\* kept, in document order and under the same ancestors, with all its other
\* attributes.
C3_SanitizedExport ==
    (svgStage >= 1 /\ ~svgOut1.threw) =>
        /\ ExportOutputClean
        /\ ElementListing(svgOut1.value, <<>>) =
              WithoutDangerousAttrs(
                  SelectSeq(ElementListing(svgIn, <<>>),
                            LAMBDA e : /\ e.tag \notin ForbiddenKinds
                                       /\ Range(e.path) \cap ForbiddenKinds = {}))

\* A script two levels below the root and event-handler attributes were
\* removed, and markup was returned.
C3_Witness ==
    /\ svgStage >= 1
    /\ ~svgOut1.threw
    /\ svgOut1.value # <<>>
    /\ \E i \in 1..Len(svgIn) : svgIn[i].tag = "script" /\ svgIn[i].attrs # <<>>
    /\ \E i \in 1..Len(ElementListing(svgIn, <<>>)) :
          LET e == ElementListing(svgIn, <<>>)[i]
          IN  e.tag = "script" /\ e.path = <<"svg">>

\* C4 as stated: for every well-formed markup, sanitizing the sanitized output
\* again yields exactly the text of sanitizing once.
C4_Idempotent ==
    svgStage = 2 => (~svgOut2.threw /\ svgOut2.value = svgOut1.value)

\* C4 amended: for every well-formed markup whose root element is not of a
\* forbidden kind, sanitizing the sanitized output again returns exactly the
\* text of sanitizing once.
C4_IdempotentKeptRoot ==
    (svgStage = 2 /\ Head(svgIn).tag \notin ForbiddenKinds) =>
        (~svgOut2.threw /\ svgOut2.value = svgOut1.value)

\* A text the first pass changed was sanitized twice with the same result.
C4_Witness ==
    /\ svgStage = 2
    /\ svgOut1.value # svgIn
    /\ svgOut1.value # <<>>
    /\ svgOut2 = svgOut1
    /\ \E i \in 1..Len(svgIn) : svgIn[i].attrs # <<>>


(***************************************************************************)
(* Claims about zoom                                                       *)
(***************************************************************************)

\* C5: after any sequence of zoomIn, zoomOut, wheel zoom, zoom(delta),
\* resetZoom, togglePan and render operations from the initial state, the zoom
\* factor is within [0.2, 5.0] (2 and 50 tenths), whatever the deltas.
C5_ZoomWithinLimits == ZOOM_MIN <= zoomLevel /\ zoomLevel <= ZOOM_MAX

\* A zoom call has left the factor at its lower limit, with pan toggled on and
\* a rendered svg on the surface carrying that scale.
C5_Witness ==
    /\ lastCall.op = "zoom"
    /\ zoomLevel = ZOOM_MIN
    /\ panEnabled
    /\ OfKind(outputDiv, "svg") # <<>>
    /\ OfKind(outputDiv, "svg")[1].transform = <<ZOOM_MIN, 0, 0>>


(***************************************************************************)
(* Claims about theme switching                                            *)
(***************************************************************************)

\* The claims below are about steps that are a call of switchTheme; such a
\* step records its key in lastCall, so only that key is looked at.
UnknownThemeKeys == ThemeKeyInputs \ DOMAIN themes

ThemeCssClasses == {themes[k].cssClass : k \in DOMAIN themes}

\* C6: switchTheme with a key that is not one of the built-in themes returns
\* false and changes nothing: not the current theme, the stored key, the mermaid
\* configuration, the output container's classes; and no render is triggered
\* (the surface, the calls in flight and the intermediate nodes stay).
C6_UnknownKeyChangesNothing ==
    [][\A themeKey \in UnknownThemeKeys \cap {lastCall'.arg}, fault \in Faults :
          SwitchTheme(themeKey, fault) =>
              /\ lastCall'.ret = "false"
              /\ UNCHANGED <<currentTheme, themeStore, mermaidConfig, themeClasses,
                             outputDiv, pending, tempNodes, editorText>>]_vars

\* switchTheme has just refused an unknown key while 'dark' was active and
\* stored and a diagram was on the surface.
C6_Witness ==
    /\ lastCall.op = "switchTheme"
    /\ lastCall.arg \in UnknownThemeKeys
    /\ lastCall.ret = "false"
    /\ currentTheme = "dark"
    /\ themeStore = "dark"
    /\ themeClasses = {"theme-dark"}
    /\ OfKind(outputDiv, "svg") # <<>>

\* The last call was switchTheme and it returned true.
SwitchReturnedTrue == lastCall.op = "switchTheme" /\ lastCall.ret = "true"

C8_SwitchAlwaysResubmits ==
    SwitchReturnedTrue =>
        /\ pending # <<>>
        /\ pending[Len(pending)].text = Renderer_sanitizeInput(editorText)

\* The textarea's value passes reRender's test.
EditorHasSource == editorText # <<>> /\ Trim(editorText) # <<>>

\* C8, amended: a switchTheme(key) that returns true, for a key that was not
\* already active and with non-blank editor text, clears the surface and hands
\* the editor's current text (untrimmed, escaped) to mermaid.render under a new
\* id; when key was already active or the editor text is blank, it submits
\* nothing and leaves the surface as it is.
C8_SwitchToNewThemeResubmits ==
    [][\A themeKey \in ThemeKeyInputs \cap {lastCall'.arg}, fault \in Faults :
          (SwitchTheme(themeKey, fault) /\ lastCall'.ret = "true") =>
              IF themeKey # currentTheme /\ EditorHasSource
              THEN /\ pending' = Append(pending,
                                        [id |-> DiagramId(clock),
                                         text |-> Renderer_sanitizeInput(editorText)])
                   /\ outputDiv' = <<>>
              ELSE UNCHANGED <<pending, outputDiv, tempNodes>>]_vars

\* switchTheme('dark') has returned true with the padded text ' <' in the
\* editor: the surface is cleared and the render in flight carries ' &lt;'.
C8_Witness ==
    /\ lastCall = Call("switchTheme", "dark", "true")
    /\ currentTheme = "dark"
    /\ editorText = <<" ", "<">>
    /\ outputDiv = <<>>
    /\ pending = <<[id |-> clock, text |-> <<" ">> \o LT]>>


(***************************************************************************)
(* Claims about renderDiagram                                              *)
(***************************************************************************)

PendingIds == {pending[i].id : i \in 1..Len(pending)}

C10_BlankRenderOnlyPrompts ==
    [][\A content \in EditorTexts :
          (lastCall'.op = "renderDiagram" /\ ContentClass(content) # "source"
             /\ DiagramUpdate(content)) =>
              /\ outputDiv' = <<PromptNode>>
              /\ UNCHANGED <<pending, tempNodes, clock, editorText, isMobileView,
                             varsView, varsTheme>>]_vars

\* renderDiagram has just been given a whitespace-only content while another
\* render was in flight: the prompt is shown and that render is still the only
\* one in flight.
C10_Witness ==
    /\ lastCall = Call("renderDiagram", "whitespace", "prompt")
    /\ outputDiv = <<PromptNode>>
    /\ Len(pending) = 1
    /\ tempNodes = PendingIds


(***************************************************************************)
(* Claims about the export operations                                      *)
(***************************************************************************)

\* C11: exportSVG called with no svg element on the surface returns false,
\* shows the NO_DIAGRAM message to the user and downloads nothing.
C11_NoDiagramMessageShown ==
    (lastCall.op = "exportSVG" /\ OfKind(outputDiv, "svg") = <<>>)
        => /\ lastCall.ret = "false"
           /\ alerted = NO_DIAGRAM
           /\ downloaded = NoFile


(***************************************************************************)
(* Claims about the examples loader                                        *)
(***************************************************************************)

\* An attempt succeeds when its fetch resolves with an ok response that is
\* not over the size limit, by its header or by its length.
Usable(response) ==
    /\ ~response.rejected
    /\ response.ok
    /\ response.contentLength <= LOAD_MAX_FILE_SIZE
    /\ Len(response.body) <= LOAD_MAX_FILE_SIZE

\* The snippets each catalogue body holds, in document order: titles trimmed
\* and escaped, codes trimmed, entries with a blank title or an unclosed fence
\* left out.
Listed(body) ==
    CASE body = Entry(<<"A">>, <<"x", "\n">>) \o NL \o Entry(<<"B">>, <<"y", "\n">>)
            -> <<Snippet(<<"A">>, <<"x">>), Snippet(<<"B">>, <<"y">>)>>
      [] body = Entry(<<"C">>, <<"z">>)
            -> <<Snippet(<<"C">>, <<"z">>)>>
      [] body = Entry(<<" ">>, <<"x">>) \o Entry(<<"<", " ">>, <<" ", "y", "\n">>)
            -> <<Snippet(LT, <<"y">>)>>
      [] body = Entry(<<"'", "/", ">">>, <<"<", "&", "\"">>)
            -> <<Snippet(APOS \o SOLIDUS \o GT, <<"<", "&", "\"">>)>>
      [] OTHER -> <<>>

\* C12: a load makes at most retryAttempts fetches, makes none after the
\* first attempt that succeeds, and its result holds exactly the snippets of
\* that attempt's response body, in document order; when every attempt failed
\* it made exactly retryAttempts fetches and resolves with the error markup.
C12_LoadUsesFirstSuccessfulFetch ==
    /\ fetches <= retryAttempts
    /\ \A i \in 1..Len(responses) :
          Usable(responses[i]) => (i = Len(responses) /\ loadPhase = "returned")
    /\ loadPhase = "returned" =>
          /\ fetches = Len(responses)
          /\ LET last == responses[Len(responses)]
             IN  IF Usable(last) /\ Listed(last.body) # <<>>
                 THEN /\ examples = Listed(last.body)
                      /\ isLoaded
                      /\ loadReturn = ExamplesHtml(Listed(last.body))
                 ELSE /\ loadReturn = ErrorHtml
                      /\ (~Usable(last) => fetches = retryAttempts)

\* Attempts 1 and 2 failed, attempt 3 brought the two-entry catalogue, and the
\* load returned its two snippets after three fetches.
C12_Witness ==
    /\ loadPhase = "returned"
    /\ retryAttempts = RETRY_ATTEMPTS
    /\ Len(responses) = 3
    /\ responses[1].rejected
    /\ ~responses[2].ok
    /\ Usable(responses[3])
    /\ fetches = 3
    /\ examples = <<Snippet(<<"A">>, <<"x">>), Snippet(<<"B">>, <<"y">>)>>
    /\ loadReturn.kind = "examples"


(***************************************************************************)
(* Claims about renders: the view transform, overlap and identifiers       *)
(***************************************************************************)

C14_FailedRenderShowsError ==
    (latestOutcome = "failed" /\ pending = <<>>)
        => /\ OfKind(outputDiv, "error") # <<>>
           /\ OfKind(outputDiv, "svg") = <<>>

\* C15: any two render submissions in flight were handed distinct
\* identifiers.
C15_DistinctIdentifiers ==
    \A i, j \in 1..Len(pending) : i # j => pending[i].id # pending[j].id


(***************************************************************************)
(* Claims about export failures and the size limit                         *)
(***************************************************************************)

ExportOps == {"exportSVG", "exportPNG"}

\* The errors of the failure paths: no diagram, sanitization or parse
\* failure, oversized output, raster library missing or rejecting, encoder
\* returning no blob, download failure.
ExportErrors ==
    {NO_DIAGRAM, SANITIZATION_FAILED, INVALID_SVG, SANITIZED_TOO_LARGE, FILE_TOO_LARGE,
     HTML2CANVAS_NOT_LOADED, HTML2CANVAS_REJECTED, PNG_BLOB_FAILED, DOWNLOAD_FAILED}

\* C16: an export call returns true or false and never throws; a call in
\* which any failure path was taken (an error was raised inside it) returns
\* false, has shown the user its export error message and has downloaded
\* nothing; a call that returns true raised no error and downloaded a file.
C16_ExportFailuresReported ==
    lastCall.op \in ExportOps
        => /\ lastCall.ret \in {"true", "false"}
           /\ consoleError \in ExportErrors \cup {NoError}
           /\ (consoleError # NoError \/ lastCall.ret = "false")
                 => /\ lastCall.ret = "false"
                    /\ consoleError # NoError
                    /\ alerted = (IF lastCall.op = "exportSVG"
                                  THEN EXPORT_ERROR_SVG ELSE EXPORT_ERROR_PNG)
                    /\ downloaded = NoFile
           /\ lastCall.ret = "true" => (alerted = NoAlert /\ downloaded # NoFile)

\* The encoder gave no blob for a diagram on the surface: exportPNG showed
\* its message and returned false.
C16_Witness ==
    /\ lastCall = Call("exportPNG", "-", "false")
    /\ OfKind(outputDiv, "svg") # <<>>
    /\ consoleError = PNG_BLOB_FAILED
    /\ alerted = EXPORT_ERROR_PNG
    /\ downloaded = NoFile

\* C17: no export downloads a file of more bytes than config.maxFileSize.
C17_DownloadWithinMaxSize == downloaded.bytes <= maxFileSize


(***************************************************************************)
(* Claims about sanitizeInput and validateAndSanitizeInput                 *)
(***************************************************************************)

\* The named entity of the apostrophe.
NAMED_APOS == <<"&", "a", "p", "o", "s", ";">>

\* The text in which every character c of the class is replaced by
\* entity[c] and every other character is copied.
EntityImage(text, entity) ==
    Flatten([i \in 1..Len(text) |->
                IF text[i] \in DOMAIN entity THEN entity[text[i]] ELSE <<text[i]>>])

\* '&lt;script&gt;alert(&quot;xss&quot;)&lt;&#x2F;script&gt;'
XssEscaped ==
    LT \o SCRIPT \o GT \o ALERT \o <<"(">> \o QUOT \o <<"x", "s", "s">> \o QUOT \o <<")">>
       \o LT \o SOLIDUS \o SCRIPT \o GT

C19_InvalidInputThrows ==
    sanFn \in {"sanitizeInput", "sanitizeMermaidInput", "validateAndSanitizeInput"}
        => /\ sanIn.type \in {"null", "undefined"} => sanOut = Raise("Error")
           /\ sanIn.type \notin {"null", "undefined", "string"} => sanOut = Raise("TypeError")
           /\ sanIn.type = "string" /\ sanFn # "validateAndSanitizeInput"
                 => sanOut.error = "none"

\* validateAndSanitizeInput(123, options) threw a TypeError.
C19_Witness ==
    /\ sanFn = "validateAndSanitizeInput"
    /\ sanIn = JsNumber
    /\ sanOut = Raise("TypeError")

\* C20: validateAndSanitizeInput throws when the input is longer than
\* maxLength, when allowEmpty is false and the input is blank, or when a
\* blacklist pattern matches the input; otherwise it returns
\* sanitizeInput(input).
C20_ValidateThenSanitize ==
    (sanFn = "validateAndSanitizeInput" /\ sanIn.type = "string")
        => IF \/ Len(sanIn.text) > EffectiveMaxLength(sanOptions)
              \/ (~sanOptions.allowEmpty /\ Trim(sanIn.text) = <<>>)
              \/ \E i \in 1..Len(blacklistPatterns) :
                    Includes(sanIn.text, blacklistPatterns[i].source)
           THEN sanOut.error # "none"
           ELSE sanOut = Ok(sanitizeInput(sanIn.text))

(***************************************************************************)
(* Claims about the theme at construction                                  *)
(***************************************************************************)

BuiltInThemeKeys == {"default", "dark", "custom"}

\* C21: when a ThemeManager is constructed, the active theme is the stored key
\* if the storage can be read and the key is one of default, dark, custom, and
\* is 'default' when the item is absent, is not one of these, or the read
\* throws; the constructor returns normally in each case.
C21_ConstructionLoadsValidKey ==
    [][\A getItemThrows \in BOOLEAN :
          Reload(getItemThrows, FALSE) =>
              /\ currentTheme' = IF ~getItemThrows /\ themeStore \in BuiltInThemeKeys
                                 THEN themeStore ELSE "default"
              /\ currentTheme' \in BuiltInThemeKeys
              /\ lastCall'.ret = "void"]_vars

\* The page was loaded again, a millisecond after it was first opened, with
\* 'custom' stored by a switch, and the new ThemeManager has taken it up.
C21_Witness ==
    /\ lastCall.op = "construct"
    /\ clock > 0
    /\ themeStore = "custom"
    /\ currentTheme = "custom"
    /\ themeClasses = {"theme-custom"}

\* The page was loaded again with an unrecognized key in the storage and the
\* new ThemeManager is on the default theme.
C21_WitnessUnrecognized ==
    /\ lastCall.op = "construct"
    /\ clock > 0
    /\ themeStore = "neon"
    /\ currentTheme = "default"

(***************************************************************************)
(* Claims about a catalogue load that produces no snippets                 *)
(***************************************************************************)

\* The response of the fetch that settled last.
LastResponse == responses[Len(responses)]

C22_WitnessAllFailed ==
    /\ loadPhase = "returned"
    /\ fetches = RETRY_ATTEMPTS
    /\ \A i \in 1..Len(responses) : ~Usable(responses[i])
    /\ loadReturn = ErrorHtml
    /\ ~isLoaded

(***************************************************************************)
(* Claims about overlapping renders                                        *)
(***************************************************************************)

\* C23: a render submitted while others are in flight joins them (none is
\* cancelled, none waits: mermaid.render is called at once), and every
\* completion writes the surface with its own result, whatever its place among
\* the renders in flight: the markup of the render that resolved, or the error
\* message of the render that was rejected.  So once all have settled the
\* surface holds the result of the one that completed last.
C23_LastCompletionWins ==
    [][/\ \A content \in RenderTexts :
             (DiagramUpdateWithin(content, MaxInFlight) /\ ~IsBlank(content))
                 => /\ Len(pending') = Len(pending) + 1
                    /\ SubSeq(pending', 1, Len(pending)) = pending
                    /\ pending'[Len(pending')].text = Renderer_sanitizeInput(content)
       /\ \A i \in 1..Len(pending) :
             RenderSucceeded(i)
                 => /\ Len(OfKind(outputDiv', "svg")) = 1
                    /\ OfKind(outputDiv', "svg")[1].src = pending[i].text
                    /\ OfKind(outputDiv', "error") = <<>>
                    /\ pending' = RemoveAt(pending, i)
       /\ \A i \in 1..Len(pending), nodeLeft \in BOOLEAN :
             RenderFailed(i, nodeLeft)
                 => /\ outputDiv' = <<ErrorNode(pending[i].text)>>
                    /\ pending' = RemoveAt(pending, i)]_vars

\* Two renders overlapped, the one submitted last was rejected first, the
\* earlier one resolved after it, and the surface holds the earlier one's
\* markup.
C23_Witness ==
    /\ pending = <<>>
    /\ latestOutcome = "failed"
    /\ lastCall.op = "renderSucceeded"
    /\ Len(OfKind(outputDiv, "svg")) = 1
    /\ OfKind(outputDiv, "error") = <<>>

(***************************************************************************)
(* Claims about catalogue text in the examples markup                      *)
(***************************************************************************)

\* The six character references sanitizeInput writes.
DisplayEntities == {LT, GT, AMP, QUOT, APOS, SOLIDUS}

\* None of < > " ' / occurs in the text, and every & in it starts one of the
\* six character references.
EscapedForMarkup(text) ==
    \A i \in 1..Len(text) :
        /\ text[i] \notin {"<", ">", "\"", "'", "/"}
        /\ text[i] = "&" => \E e \in DisplayEntities : OccursAt(text, i, e)

\* The map of sanitizeInput, character by character.
DisplayEntityOf ==
    "<" :> LT @@ ">" :> GT @@ "&" :> AMP @@ "\"" :> QUOT @@ "'" :> APOS @@ "/" :> SOLIDUS

\* C24: in the markup loadExamples() resolves with, every snippet title and
\* every snippet code is the catalogue's text with each of < > & " ' /
\* replaced by its character reference (the title trimmed first), and so is the
\* error text of the fallback markup: none of them holds a character that
\* could open a tag or an attribute.
C24_CatalogueTextEscaped ==
    loadPhase = "returned" =>
        /\ \A i \in 1..Len(loadReturn.snippets) :
              /\ EscapedForMarkup(loadReturn.snippets[i].title)
              /\ EscapedForMarkup(loadReturn.snippets[i].code)
        /\ loadReturn.kind = "examples" =>
              LET listed == Listed(LastResponse.body)
              IN  /\ Len(loadReturn.snippets) = Len(listed)
                  /\ \A i \in 1..Len(listed) :
                        /\ loadReturn.snippets[i].title = listed[i].title
                        /\ loadReturn.snippets[i].code
                               = EntityImage(listed[i].code, DisplayEntityOf)
        /\ EscapedForMarkup(loadErrorText)
        /\ (loadReturn.kind = "error" /\ ~LastResponse.rejected /\ ~LastResponse.ok) =>
              loadErrorText = FETCH_FAILED \o COLON \o HTTP_STATUS \o COLON
                                 \o EntityImage(LastResponse.statusText, DisplayEntityOf)

\* The catalogue's only entry has the title '/> and the code <&" and the load
\* has returned the markup with both escaped.
C24_Witness ==
    /\ loadPhase = "returned"
    /\ loadReturn.kind = "examples"
    /\ LastResponse.body = Entry(<<"'", "/", ">">>, <<"<", "&", "\"">>)
    /\ Len(loadReturn.snippets) = 1
    /\ loadReturn.snippets[1].title = APOS \o SOLIDUS \o GT
    /\ loadReturn.snippets[1].code = LT \o AMP \o QUOT

\* The last attempt's response had a status text with < ' / in it, and the
\* load has returned the error markup with the text escaped.
C24_WitnessErrorText ==
    /\ loadPhase = "returned"
    /\ loadReturn.kind = "error"
    /\ LastResponse.statusText = <<"<", "'", "/">>
    /\ loadErrorText = FETCH_FAILED \o COLON \o HTTP_STATUS \o COLON \o LT \o APOS \o SOLIDUS

(***************************************************************************)
(* Claims about panning                                                    *)
(***************************************************************************)

\* C26: a pointer movement changes translateX and translateY only when pan is
\* enabled and a drag is in progress, and then the translation is the one the
\* drag started from plus the pointer's displacement from where the drag
\* started, so that a pointer back at its start position gives the starting
\* translation; a movement outside a drag, or with pan disabled, changes
\* neither the translation nor the surface; togglePan negates the gate, so
\* that two calls restore it, and moves nothing.
C26_PanFollowsDrag ==
    [][/\ lastCall'.ret = "panned"
             => /\ panEnabled /\ isDragging
                /\ lastCall'.op \in {"mousemove", "touchmove"}
                /\ translateX' = dragStart.translateX + (pointer'.x - dragStart.x)
                /\ translateY' = dragStart.translateY + (pointer'.y - dragStart.y)
                /\ (pointer'.x = dragStart.x /\ pointer'.y = dragStart.y)
                      => /\ translateX' = dragStart.translateX
                         /\ translateY' = dragStart.translateY
       /\ (lastCall'.op \in {"mousemove", "touchmove"} /\ ~(panEnabled /\ isDragging))
             => UNCHANGED <<translateX, translateY, outputDiv>>
       /\ (translateX' # translateX \/ translateY' # translateY)
             => \/ lastCall'.op = "resetZoom"
                \/ lastCall'.ret = "panned"
       /\ lastCall'.op = "togglePan"
             => /\ panEnabled' = ~panEnabled
                /\ UNCHANGED <<translateX, translateY, outputDiv>>]_vars

\* A second drag, started where the first one had left the diagram, has moved
\* the diagram on, and the svg element carries the translation.
C26_Witness ==
    /\ lastCall = Call("mousemove", "-", "panned")
    /\ isDragging
    /\ dragStart.translateX # 0
    /\ translateX # dragStart.translateX
    /\ OfKind(outputDiv, "svg") # <<>>
    /\ OfKind(outputDiv, "svg")[1].transform = <<zoomLevel, translateX, translateY>>

(***************************************************************************)
(* Claims about the render button                                          *)
(***************************************************************************)

\* C27: a click on the render button while the textarea holds a text that is
\* not blank dispatches one 'diagram-update' event whose content is the text
\* without its leading and trailing whitespace: one render more is in flight,
\* for that content (escaped by the renderer), and the renders already in
\* flight stay.  A click while the textarea is empty or holds only whitespace
\* dispatches nothing: no render is submitted and the surface, with any
\* diagram on it, stays as it was, as does everything else.
C27_ClickDispatchesTrimmedText ==
    [][RenderButtonClick =>
          IF editorText \in {<<>>, <<" ">>}
          THEN /\ lastCall'.ret = "ignored"
               /\ UNCHANGED <<outputDiv, pending, tempNodes, editorText, clock,
                              isMobileView, varsView, varsTheme>>
          ELSE /\ lastCall'.ret = "dispatched"
               /\ Len(pending') = Len(pending) + 1
               /\ SubSeq(pending', 1, Len(pending)) = pending
               /\ editorText = <<" ", "<">> => pending'[Len(pending')].text = LT
               /\ outputDiv' = <<>>
               /\ UNCHANGED <<editorText, clock, isMobileView, varsView, varsTheme>>]_vars

\* The render button was clicked over a whitespace-only textarea while a
\* diagram was shown: the click was ignored and the diagram is still there.
C27_Witness ==
    /\ lastCall = Call("renderClick", "whitespace", "ignored")
    /\ editorText = <<" ">>
    /\ OfKind(outputDiv, "svg") # <<>>
    /\ pending = <<>>

\* The render button was clicked over ' <' and the render of the trimmed,
\* escaped text is in flight.
C27_WitnessDispatched ==
    /\ lastCall = Call("renderClick", "source", "dispatched")
    /\ editorText = <<" ", "<">>
    /\ Len(pending) = 1
    /\ pending[1].text = LT
    /\ outputDiv = <<>>

(***************************************************************************)
(* Claims about a theme switch that fails                                  *)
(***************************************************************************)

\* C30: when switchTheme(key), for a built-in key that is not the active one,
\* returns false because something failed while the theme was applied, the
\* current theme, the stored key, the mermaid configuration and the output
\* container's classes are what they were before the call.
C30_FailedSwitchChangesNothing ==
    [][\A themeKey \in BuiltInThemeKeys \cap {lastCall'.arg}, fault \in Faults :
          (SwitchTheme(themeKey, fault) /\ themeKey # currentTheme
              /\ lastCall'.ret = "false")
             => UNCHANGED <<currentTheme, themeStore, mermaidConfig, themeClasses>>]_vars

(***************************************************************************)
(* Claims about the App's start-up and destroy                             *)
(***************************************************************************)

\* A required element is missing (and has been since the App was constructed:
\* nothing is ever taken out of the document).
RequiredMissing == "required" \in missing

\* No further attempt, report or change of readiness follows a final failure.
FailureIsFinal ==
    initPhase = "failed" =>
        /\ initPhase' = "failed"
        /\ initAttempts' = initAttempts
        /\ onErrorCalls' = onErrorCalls
        /\ isInitialized' = FALSE

\* C25: while a required element stays missing, _initialize is called at most
\* MAX_INIT_RETRIES times, isReady() is false and no component is registered;
\* the final failure is reached, after exactly MAX_INIT_RETRIES attempts and
\* with exactly one call of onError, and nothing is attempted or reported
\* after it.
C25_ThreeAttemptsThenOneError ==
    /\ [](RequiredMissing =>
            /\ ~isInitialized
            /\ components = {}
            /\ initAttempts <= MAX_INIT_RETRIES
            /\ onErrorCalls = (IF initPhase = "failed" THEN 1 ELSE 0)
            /\ (initPhase = "failed" => initAttempts = MAX_INIT_RETRIES))
    /\ [][FailureIsFinal]_vars
    /\ (RequiredMissing ~> (~RequiredMissing \/ initPhase = "failed"))

C25_Witness ==
    /\ RequiredMissing
    /\ initPhase = "failed"
    /\ initAttempts = MAX_INIT_RETRIES
    /\ onErrorCalls = 1
    /\ ~isInitialized

\* C28: once _initialize has run to its end, whatever the number of attempts,
\* #renderBtn has one click handler that dispatches 'diagram-update', document
\* has one listener of the event, and the last click submitted one render.
C28_OneHandlerOneListener ==
    initPhase = "done" =>
        /\ clickHandlers = 1
        /\ updateListeners = 1
        /\ submitted = 1

\* C29: once destroy() has been called, isReady() is false, App.components is
\* empty and window.app is not set.
C29_DestroyedStaysDestroyed ==
    destroyed =>
        /\ ~isInitialized
        /\ components = {}
        /\ ~windowApp

====
